---- MODULE Spec2Model ----
(***************************************************************************)
(* Model of the search orchestrator of the multi-agent research pipeline:  *)
(* intelligent_search (agents/research_agent.py) and the two provider      *)
(* clients it calls (tools/tavily_search.py, tools/serp_search.py).        *)
(*                                                                         *)
(* Error messages are sequences of tokens (words and punctuation marks),   *)
(* so that "the message contains the text ..." is a check on the message   *)
(* the code builds.  An Optional value is a set with at most one element.  *)
(***************************************************************************)
EXTENDS Integers, Sequences, FiniteSets, TLC

\* ------------------------------------------------------------------ bounds
MaxItems == 2          \* longest result list a backend returns
MaxRequests == 2       \* number of successive intelligent_search calls
MaxDelay == 1          \* longest duration of one provider call (clock ticks)
MaxToolRuns == 1       \* tools an agent runs within one request

\* --------------------------------------------------------------- constants
Strategies == {"tavily_only", "serp_only", "intelligent"}
TAVILY == "tavily"
SERP == "serp"
Queries == {"x", "y"}
RawTitles == {"a", "b"}
StatusCodes == {401, 500}
None == {}

Some(x) == {x}

\* all sequences over S of length at most n
RECURSIVE SeqsUpTo(_, _)
SeqsUpTo(S, n) ==
  IF n = 0 THEN {<<>>}
  ELSE LET shorter == SeqsUpTo(S, n - 1)
       IN shorter \cup {Append(s, x) : s \in {t \in shorter : Len(t) = n - 1}, x \in S}

\* ----------------------------------------------------------- message text
\* msg contains the contiguous token sequence txt
Contains(msg, txt) ==
  \E i \in 0..(Len(msg) - Len(txt)) :
    \A j \in 1..Len(txt) : msg[i + j] = txt[j]

\* ', '.join(names)
RECURSIVE JoinComma(_)
JoinComma(names) ==
  IF Len(names) = 0 THEN <<>>
  ELSE IF Len(names) = 1 THEN <<names[1]>>
  ELSE <<names[1], ",">> \o JoinComma(Tail(names))

CodeText(c) == IF c = 401 THEN "401" ELSE "500"

\* --------------------------------------------------------- data structures
SearchResults(q, res, n, t, used, summary) ==
  [query |-> q, results |-> res, total_results |-> n, search_time |-> t,
   providers_used |-> used, ai_summary |-> summary]

\* the exception classes of agents/models.py; mro lists the class and its bases
SearchError(m) ==
  [kind |-> "raise", type |-> "SearchError", mro |-> {"SearchError", "Exception"},
   msg |-> m, provider |-> None, status_code |-> None]

TavilyAPIError(m, code) ==
  [kind |-> "raise", type |-> "TavilyAPIError",
   mro |-> {"TavilyAPIError", "SearchError", "Exception"},
   msg |-> m, provider |-> Some(TAVILY), status_code |-> code]

SerpAPIError(m, code) ==
  [kind |-> "raise", type |-> "SerpAPIError",
   mro |-> {"SerpAPIError", "SearchError", "Exception"},
   msg |-> m, provider |-> Some(SERP), status_code |-> code]

\* a plain Exception, as a test double of a client raises it
PlainException(m) ==
  [kind |-> "raise", type |-> "Exception", mro |-> {"Exception"},
   msg |-> m, provider |-> None, status_code |-> None]

Return(v) == [kind |-> "return", value |-> v]

\* -------------------------------------------------------- provider clients
ErrorBodies == {"json_error", "json_plain", "text"}

\* what a backend can answer to the one request a client sends
TavilyResponses ==
  [kind : {"ok"}, results : SeqsUpTo(RawTitles, MaxItems), answer : {None, Some(<<"answer">>)}]
    \cup [kind : {"status"}, code : StatusCodes, body : ErrorBodies]
    \cup [kind : {"timeout", "request_error", "malformed"}]

SerpResponses ==
  [kind : {"ok"}, results : SeqsUpTo(RawTitles, MaxItems)]
    \cup [kind : {"status"}, code : StatusCodes, body : ErrorBodies]
    \cup [kind : {"timeout", "request_error", "malformed", "error_field"}]

NumText(n) == <<"0", "1", "2", "3", "4", "5", "6", "7", "8", "9">>[n + 1]

\* the text appended to "... returned <status>" for a non-200 answer
StatusDetail(body) ==
  IF body = "json_error" THEN <<":", "backend_error">>
  ELSE IF body = "json_plain" THEN <<>>
  ELSE <<":", "body_text">>

TavilySearchResult(title) ==
  [class |-> "TavilySearchResult", title |-> title, url |-> title, provider |-> TAVILY]

\* SerpSearchResult carrying the other provider's tag
SerpSearchResult_TavilyTag(title, position) ==
  [class |-> "SerpSearchResult", title |-> title, url |-> title,
   position |-> position, provider |-> TAVILY]

SerpSearchResult(title, position) ==
  [class |-> "SerpSearchResult", title |-> title, url |-> title,
   position |-> position, provider |-> SERP]

\* SerpSearchTool._generate_summary
GenerateSummary(results) ==
  IF Len(results) = 0 THEN <<"No", "search", "results", "found", ".">>
  ELSE LET top == SubSeq(results, 1, IF Len(results) < 3 THEN Len(results) ELSE 3)
           sources == [i \in 1..Len(top) |-> top[i].url]
       IN <<"Found", NumText(Len(results)), "search", "results", ".",
            "Top", "sources", ":">> \o JoinComma(sources)

\* TavilySearchTool.search putting each converted item in front of the list
TavilySearch_Prepends(query, include_answer, resp, d) ==
  IF resp.kind = "ok" THEN
    LET n == Len(resp.results)
        results == [i \in 1..n |-> TavilySearchResult(resp.results[n + 1 - i])]
    IN Return(SearchResults(query, results, Len(results), d, <<TAVILY>>,
                            IF include_answer THEN resp.answer ELSE None))
  ELSE IF resp.kind = "status" THEN
    TavilyAPIError(<<"Unexpected", "Tavily", "search", "error", ":",
                     "Tavily", "API", "returned", CodeText(resp.code)>>
                   \o StatusDetail(resp.body), None)
  ELSE IF resp.kind = "timeout" THEN
    TavilyAPIError(<<"Tavily", "search", "timeout", "after", "30", "s">>, None)
  ELSE IF resp.kind = "request_error" THEN
    TavilyAPIError(<<"Tavily", "request", "failed", ":", "connect_error">>, None)
  ELSE
    TavilyAPIError(<<"Unexpected", "Tavily", "search", "error", ":", "decode_error">>, None)

\* TavilySearchTool.search: one request, answered by resp after d ticks
TavilySearch(query, include_answer, resp, d) ==
  IF resp.kind = "ok" THEN
    LET results == [i \in 1..Len(resp.results) |-> TavilySearchResult(resp.results[i])]
    IN Return(SearchResults(query, results, Len(results), d, <<TAVILY>>,
                            IF include_answer THEN resp.answer ELSE None))
  ELSE IF resp.kind = "status" THEN
    \* the TavilyAPIError raised with the status is caught by the trailing
    \* "except Exception" of the same try and raised again without it
    TavilyAPIError(<<"Unexpected", "Tavily", "search", "error", ":",
                     "Tavily", "API", "returned", CodeText(resp.code)>>
                   \o StatusDetail(resp.body), None)
  ELSE IF resp.kind = "timeout" THEN
    TavilyAPIError(<<"Tavily", "search", "timeout", "after", "30", "s">>, None)
  ELSE IF resp.kind = "request_error" THEN
    TavilyAPIError(<<"Tavily", "request", "failed", ":", "connect_error">>, None)
  ELSE
    TavilyAPIError(<<"Unexpected", "Tavily", "search", "error", ":", "decode_error">>, None)

\* SerpSearchTool.search without its trailing "except Exception" clause
SerpSearch_NoCatchAll(query, resp, d) ==
  IF resp.kind = "ok" THEN
    LET results == [i \in 1..Len(resp.results) |-> SerpSearchResult(resp.results[i], i)]
    IN Return(SearchResults(query, results, Len(results), d, <<SERP>>,
                            IF Len(results) > 0 THEN Some(GenerateSummary(results)) ELSE None))
  ELSE IF resp.kind = "status" THEN
    SerpAPIError(<<"SerpAPI", "returned", CodeText(resp.code)>>
                 \o StatusDetail(resp.body), Some(resp.code))
  ELSE IF resp.kind = "error_field" THEN
    SerpAPIError(<<"SerpAPI", "error", ":", "backend_error">>, None)
  ELSE IF resp.kind = "timeout" THEN
    SerpAPIError(<<"SerpAPI", "search", "timeout", "after", "30", "s">>, None)
  ELSE IF resp.kind = "request_error" THEN
    SerpAPIError(<<"SerpAPI", "request", "failed", ":", "connect_error">>, None)
  ELSE
    PlainException(<<"decode_error">>)

\* SerpSearchTool.search
SerpSearch(query, resp, d) ==
  IF resp.kind = "ok" THEN
    LET results == [i \in 1..Len(resp.results) |-> SerpSearchResult(resp.results[i], i)]
    IN Return(SearchResults(query, results, Len(results), d, <<SERP>>,
                            IF Len(results) > 0 THEN Some(GenerateSummary(results)) ELSE None))
  ELSE IF resp.kind = "status" THEN
    SerpAPIError(<<"Unexpected", "SerpAPI", "search", "error", ":",
                   "SerpAPI", "returned", CodeText(resp.code)>>
                 \o StatusDetail(resp.body), None)
  ELSE IF resp.kind = "error_field" THEN
    SerpAPIError(<<"Unexpected", "SerpAPI", "search", "error", ":",
                   "SerpAPI", "error", ":", "backend_error">>, None)
  ELSE IF resp.kind = "timeout" THEN
    SerpAPIError(<<"SerpAPI", "search", "timeout", "after", "30", "s">>, None)
  ELSE IF resp.kind = "request_error" THEN
    SerpAPIError(<<"SerpAPI", "request", "failed", ":", "connect_error">>, None)
  ELSE
    SerpAPIError(<<"Unexpected", "SerpAPI", "search", "error", ":", "decode_error">>, None)

\* what ctx.deps.tavily_tool.search can do: the client on some backend answer,
\* or a test double raising a plain Exception
MockRaise == [kind |-> "mock_raise"]
TavilyInputs == TavilyResponses \cup {MockRaise}
SerpInputs == SerpResponses \cup {MockRaise}

\* the call intelligent_search makes: search_depth="advanced", include_answer=True
TavilyCall(query, r, d) ==
  IF r = MockRaise THEN PlainException(<<"Tavily", "failed">>)
  ELSE TavilySearch(query, TRUE, r, d)

SerpCall(query, r, d) ==
  IF r = MockRaise THEN PlainException(<<"SerpAPI", "failed">>)
  ELSE SerpSearch(query, r, d)

TavilyOutcomes(query, d) == {TavilyCall(query, r, d) : r \in TavilyInputs}

SerpOutcomes(query, d) == {SerpCall(query, r, d) : r \in SerpInputs}

\* ------------------------------------------------------ search orchestrator
VARIABLES
  requests,        \* number of intelligent_search calls started so far
  strategy,        \* ctx.deps.settings.search_strategy
  tavily_api_key,  \* deps.tavily_api_key (Optional[str])
  serp_api_key,    \* deps.serp_api_key (Optional[str])
  tavily_tool,     \* TRUE iff ctx.deps.tavily_tool is set
  serp_tool,       \* TRUE iff ctx.deps.serp_tool is set
  query,           \* the query of the call
  pc,              \* position of the call in intelligent_search
  search_results,  \* the local variable search_results
  elapsed,         \* time.time() - start_time
  tavily_calls,    \* invocations of tavily_tool.search in this request
  serp_calls,      \* invocations of serp_tool.search in this request
  tavily_outcome,  \* what tavily_tool.search did, [kind |-> "none"] before
  serp_outcome,    \* what serp_tool.search did, [kind |-> "none"] before
  outcome,         \* what intelligent_search did, [kind |-> "none"] before
  tavily_response, \* what answered the Tavily request, [kind |-> "none"] before
  serp_response,   \* what answered the SerpAPI request, [kind |-> "none"] before
  call_log,        \* the provider calls of this request, as start and end events
  call_base,       \* where the call or tool run under way began: the length of
                   \* call_log and the time elapsed then
  op,              \* the top-level operation: "search", "research" or "email"
  create_summary,  \* run_research_agent's create_summary argument
  rpc,             \* position in run_research_agent / run_email_agent
  llm_calls,       \* invocations of research_agent.run / email_agent.run
  llm_outcome,     \* what that run did, [kind |-> "none"] before
  gmail_calls,     \* invocations of gmail_tool.create_draft
  gmail_outcome,   \* what create_draft did, [kind |-> "none"] before
  response,        \* what the operation did (the AgentResponse returned, or an
                   \* exception leaving it), [kind |-> "none"] before
  own_search,      \* run_research_agent's locals: its query, and what its own
                   \* intelligent_search call did
  tool_pc,         \* position of the tool the agent runs inside research_agent.run
                   \* or email_agent.run, "NONE" when no tool is running
  tool_runs,       \* tools the agents have run in this request
  tool_outcome,    \* what the last of these tool runs returned or raised
  endpoint,        \* the function of n8n_integration.py or the endpoint of
                   \* fastapi_server.py that was called, "none" before
  request,         \* the arguments of that call
  environ,         \* the environment the call runs in: the two API keys, and
                   \* whether Settings() can be built
  backend,         \* what each backend answers to a request it receives
  sent,            \* the requests sent to the backends during the call
  strategy_run,    \* the strategy intelligent_search read, None if it never ran
  result,          \* what the call returned or raised, or the HTTP answer
  settings_heap,   \* the Settings objects alive, each by its search_strategy;
                   \* the first is the module-level instance of config/settings.py
  slots            \* the n8n_intelligent_search calls running side by side

vars == <<requests, strategy, tavily_api_key, serp_api_key, tavily_tool, serp_tool,
          query, pc, search_results, elapsed, tavily_calls, serp_calls,
          tavily_outcome, serp_outcome, outcome,
          tavily_response, serp_response, call_log, call_base,
          op, create_summary, rpc, llm_calls, llm_outcome,
          gmail_calls, gmail_outcome, response,
          own_search, tool_pc, tool_runs, tool_outcome,
          endpoint, request, environ, backend, sent, strategy_run, result,
          settings_heap, slots>>

mainVars == <<requests, strategy, tavily_api_key, serp_api_key, tavily_tool, serp_tool,
              query, pc, search_results, elapsed, tavily_calls, serp_calls,
              tavily_outcome, serp_outcome, outcome,
              tavily_response, serp_response, call_log, call_base,
              op, create_summary, rpc, llm_calls, llm_outcome,
              gmail_calls, gmail_outcome, response,
              own_search, tool_pc, tool_runs, tool_outcome>>

serverVars == <<endpoint, request, environ, backend, sent, strategy_run, result>>

concVars == <<settings_heap, slots>>

searchVars == <<strategy, tavily_api_key, serp_api_key, tavily_tool, serp_tool,
                query, pc, search_results, tavily_calls, serp_calls,
                tavily_outcome, serp_outcome, outcome,
                tavily_response, serp_response, call_log, call_base>>

toolVars == <<tool_pc, tool_runs, tool_outcome>>

Keys == {None, Some(""), Some("key")}
NoOutcome == [kind |-> "none"]

\* no function of n8n_integration.py and no endpoint has been called
ServerIdle ==
  /\ endpoint = "none"
  /\ request = NoOutcome
  /\ environ = NoOutcome
  /\ backend = NoOutcome
  /\ sent = <<>>
  /\ strategy_run = None
  /\ result = NoOutcome

\* no concurrent calls are running
ConcIdle ==
  /\ settings_heap = <<>>
  /\ slots = <<>>
Await(provider) == [kind |-> "await", provider |-> provider]

\* ResearchAgentDeps.__init__: a tool is built for every key that is truthy
ToolFor(key) == key # None /\ key # Some("")

\* the envelope intelligent_search starts from
EmptyResults(q) == SearchResults(q, <<>>, 0, 0, <<>>, None)

\* Propagate raising every exception again as it is
Propagate_NoWrap(exc) == exc

\* the trailing handlers of intelligent_search: a SearchError (or a subclass)
\* is raised again as it is, anything else is wrapped
Propagate(exc) ==
  IF "SearchError" \in exc.mro THEN exc
  ELSE SearchError(<<"Unexpected", "search", "error", ":">> \o exc.msg)

\* Finish without the test on available_providers
Finish_NoProviderList(sr, tav, serp, t) ==
  IF Len(sr.results) = 0 THEN SearchError(<<"No", "search", "providers", "configured">>)
  ELSE Return([sr EXCEPT !.search_time = t])

\* "If still no results, raise error" and the successful return
Finish(sr, tav, serp, t) ==
  IF Len(sr.results) = 0 THEN
    LET available_providers ==
          (IF tav THEN <<"Tavily">> ELSE <<>>) \o (IF serp THEN <<"SerpAPI">> ELSE <<>>)
    IN IF Len(available_providers) = 0
       THEN SearchError(<<"No", "search", "providers", "configured">>)
       ELSE SearchError(<<"All", "configured", "providers", "failed", ":">>
                        \o JoinComma(available_providers))
  ELSE Return([sr EXCEPT !.search_time = t])

\* AfterTavily falling back whenever SerpAPI is configured, results or not
AfterTavily_AlwaysFallback(sr, tav, serp, t) ==
  IF serp THEN Await(SERP) ELSE Finish(sr, tav, serp, t)

\* AfterTavily trying Tavily once more when it left no results and there is
\* no SerpAPI to fall back to
AfterTavily_RetriesPrimary(sr, tav, serp, t) ==
  IF Len(sr.results) = 0 /\ serp THEN Await(SERP)
  ELSE IF Len(sr.results) = 0 /\ tav THEN Await(TAVILY)
  ELSE Finish(sr, tav, serp, t)

\* "Fallback to SerpAPI if Tavily failed or unavailable": the next thing the
\* intelligent strategy does once the Tavily attempt is over
AfterTavily(sr, tav, serp, t) ==
  IF Len(sr.results) = 0 /\ serp THEN Await(SERP) ELSE Finish(sr, tav, serp, t)

\* Enter testing the strategy and the tool in one condition, so that a
\* single-provider strategy without its tool runs the intelligent branch
Enter_NoKeyCheck(strat, q, tav, serp) ==
  IF strat = "tavily_only" /\ tav THEN Await(TAVILY)
  ELSE IF strat = "serp_only" /\ serp THEN Await(SERP)
  ELSE IF tav THEN Await(TAVILY)
  ELSE AfterTavily(EmptyResults(q), tav, serp, 0)

\* intelligent_search from its entry to its first provider call or its end
Enter(strat, q, tav, serp) ==
  IF strat = "tavily_only" THEN
    IF ~tav THEN SearchError(<<"Tavily", "API", "key", "not", "configured">>)
    ELSE Await(TAVILY)
  ELSE IF strat = "serp_only" THEN
    IF ~serp THEN SearchError(<<"SerpAPI", "key", "not", "configured">>)
    ELSE Await(SERP)
  ELSE IF tav THEN Await(TAVILY)
  ELSE AfterTavily(EmptyResults(q), tav, serp, 0)

\* OnTavily falling back to SerpAPI under tavily_only as well
OnTavily_FallsBack(strat, sr, tav, serp, o, t) ==
  AfterTavily(IF o.kind = "return" THEN o.value ELSE sr, tav, serp, t)

\* OnTavily letting a Tavily exception end the intelligent strategy
OnTavily_NoFallbackOnRaise(strat, sr, tav, serp, o, t) ==
  IF o.kind = "raise" THEN Propagate(o)
  ELSE IF strat = "tavily_only" THEN Return([o.value EXCEPT !.search_time = t])
  ELSE AfterTavily(o.value, tav, serp, t)

\* intelligent_search from the end of the Tavily call o
OnTavily(strat, sr, tav, serp, o, t) ==
  IF strat = "tavily_only" THEN
    IF o.kind = "return" THEN Return([o.value EXCEPT !.search_time = t])
    ELSE Propagate(o)
  ELSE AfterTavily(IF o.kind = "return" THEN o.value ELSE sr, tav, serp, t)

\* OnSerp recording every provider tried, not only the one that answered
OnSerp_KeepsTavily(strat, sr, tav, serp, o, t) ==
  IF strat = "serp_only" THEN
    IF o.kind = "return" THEN Return([o.value EXCEPT !.search_time = t])
    ELSE Propagate(o)
  ELSE IF o.kind = "return"
       THEN Finish([o.value EXCEPT !.providers_used = <<TAVILY>> \o @], tav, serp, t)
  ELSE SearchError(<<"All", "search", "providers", "failed", ":",
                     "Tavily", "and", "SerpAPI", "errors">>)

\* OnSerp handing SerpAPI's own exception to the trailing handlers
OnSerp_Propagates(strat, sr, tav, serp, o, t) ==
  IF o.kind = "return" THEN
    IF strat = "serp_only" THEN Return([o.value EXCEPT !.search_time = t])
    ELSE Finish(o.value, tav, serp, t)
  ELSE Propagate(o)

\* OnSerp trying Tavily once more when SerpAPI raised
OnSerp_RetriesTavily(strat, sr, tav, serp, o, t) ==
  IF strat = "serp_only" THEN
    IF o.kind = "return" THEN Return([o.value EXCEPT !.search_time = t])
    ELSE Propagate(o)
  ELSE IF o.kind = "return" THEN Finish(o.value, tav, serp, t)
  ELSE IF tav THEN Await(TAVILY)
  ELSE SearchError(<<"All", "search", "providers", "failed", ":",
                     "Tavily", "and", "SerpAPI", "errors">>)

\* intelligent_search from the end of the SerpAPI call o
OnSerp(strat, sr, tav, serp, o, t) ==
  IF strat = "serp_only" THEN
    IF o.kind = "return" THEN Return([o.value EXCEPT !.search_time = t])
    ELSE Propagate(o)
  ELSE IF o.kind = "return" THEN Finish(o.value, tav, serp, t)
  ELSE SearchError(<<"All", "search", "providers", "failed", ":",
                     "Tavily", "and", "SerpAPI", "errors">>)

\* the local variable search_results once the provider call o has ended and
\* the call has run on to r: "search_results = tavily_results" binds it to
\* the object the client returned, and "search_results.search_time = ..."
\* updates that same object before it is returned
Rebound(sr, o, r) ==
  IF r.kind = "return" THEN r.value
  ELSE IF o.kind = "return" THEN o.value
  ELSE sr

\* the position a step leaves the call in
PcOf(r) ==
  IF r.kind = "await" THEN (IF r.provider = TAVILY THEN "TRY_PRIMARY" ELSE "TRY_SECONDARY")
  ELSE IF r.kind = "return" THEN "SUCCESS"
  ELSE "ALL_FAILED"

\* ------------------------------------------- run_research_agent (pure part)
AgentResponse(success, data, message, error, t, tokens) ==
  [success |-> success, data |-> data, message |-> message, error |-> error,
   execution_time |-> t, tokens_used |-> tokens]

Respond(resp) == [kind |-> "respond", value |-> resp]

\* results_text: one numbered entry per result, from entry i on
RECURSIVE FormatResults(_, _)
FormatResults(results, i) ==
  IF i > Len(results) THEN <<>>
  ELSE LET r == results[i]
           entry == IF r.class = "TavilySearchResult"
                    THEN <<NumText(i), ".", "**", r.title, "**", "Source", ":", r.url,
                           "Content", ":", "content">>
                    ELSE <<NumText(i), ".", "**", r.title, "**", "Source", ":", r.url,
                           "Snippet", ":", "snippet">>
       IN entry \o FormatResults(results, i + 1)

SourcesOf(results) == [i \in 1..Len(results) |-> results[i].url]

\* what research_agent.run can do: text with or without usage, or an exception
ResearchRunOutcomes ==
  {Return([data |-> <<"summary_text">>, usage |-> u]) : u \in {None, Some(1500)}}
    \cup {PlainException(<<"model", "error">>)}

\* the two except clauses of run_research_agent
ResearchHandle(exc, t) ==
  IF "SearchError" \in exc.mro
  THEN AgentResponse(FALSE, None,
                     <<"Research", "failed", "due", "to", "search", "error">>,
                     Some(<<"Search", "failed", ":">> \o exc.msg), t, None)
  ELSE AgentResponse(FALSE, None,
                     <<"Research", "failed", "due", "to", "unexpected", "error">>,
                     Some(<<"Research", "agent", "failed", ":">> \o exc.msg), t, None)

\* the response_data dict of run_research_agent
ResponseData(summary, sr, q) ==
  [summary |-> summary, search_results |-> sr,
   sources |-> SourcesOf(sr.results), query |-> q]

\* AgentResponse.data is Optional[Union[SearchResults, EmailDraft, str]]: a
\* dict given as data is validated against the members of the union, and one
\* with a "query" key is accepted by the first, SearchResults, which takes
\* the query, ignores the other keys and fills its other fields by default
DataFromDict(d) == SearchResults(d.query, <<>>, 0, 0, <<>>, None)

ResearchSuccess(summary, tokens, sr, q, t) ==
  AgentResponse(TRUE,
                Some(DataFromDict(ResponseData(summary, sr, q))),
                <<"Research", "completed", "successfully", "with",
                  NumText(Len(sr.results)), "sources">>,
                None, t, tokens)

\* run_research_agent up to the search: deps are given or built
ResearchEnter(deps_ok, t) ==
  IF deps_ok THEN Await("search")
  ELSE Respond(ResearchHandle(PlainException(<<"settings", "invalid">>), t))

\* ResearchOnSearch without the test for an empty result list
ResearchOnSearch_NoEmptyCheck(o, q, summarize, t) ==
  IF o.kind = "raise" THEN Respond(ResearchHandle(o, t))
  ELSE IF summarize THEN Await("llm")
  ELSE Respond(ResearchSuccess(FormatResults(o.value.results, 1), None, o.value, q, t))

\* run_research_agent from the end o of intelligent_search
ResearchOnSearch(o, q, summarize, t) ==
  IF o.kind = "raise" THEN Respond(ResearchHandle(o, t))
  ELSE IF Len(o.value.results) = 0 THEN
    Respond(AgentResponse(FALSE, None, <<"No", "search", "results", "found">>,
                          Some(<<"Search", "returned", "no", "results">>), t, None))
  ELSE IF summarize THEN Await("llm")
  ELSE Respond(ResearchSuccess(FormatResults(o.value.results, 1), None, o.value, q, t))

\* ResearchOnSummary without a handler around research_agent.run
ResearchOnSummary_Unhandled(sr, q, o, t) ==
  IF o.kind = "raise" THEN o
  ELSE Respond(ResearchSuccess(o.value.data, o.value.usage, sr, q, t))

\* run_research_agent from the end o of research_agent.run
ResearchOnSummary(sr, q, o, t) ==
  IF o.kind = "raise" THEN Respond(ResearchHandle(o, t))
  ELSE Respond(ResearchSuccess(o.value.data, o.value.usage, sr, q, t))

\* ---------------------------------------------- run_email_agent (pure part)
DraftIds == {"d1", "d2"}

EmailDraft(to, subject, body, draft_id) ==
  [to |-> to, subject |-> subject, body |-> body, draft_id |-> draft_id]

GmailAPIError(m, code) ==
  [kind |-> "raise", type |-> "GmailAPIError", mro |-> {"GmailAPIError", "Exception"},
   msg |-> m, provider |-> None, status_code |-> code]

\* what email_agent.run can do: a draft or no data, with or without usage, or
\* an exception. The draft is the model's answer in the EmailDraft schema, of
\* which draft_id is a field like the others: the model leaves it unset or
\* fills it in
EmailRunOutcomes ==
  {Return([data |-> dt, usage |-> u]) :
     dt \in {None} \cup {Some(EmailDraft(<<"to@x">>, "subject", "body", id)) :
                           id \in {None, Some(<<"abc">>)}},
     u \in {None, Some(800)}}
    \cup {PlainException(<<"model", "error">>)}

\* what can answer gmail_tool.create_draft
GmailInputs ==
  [kind : {"created"}, id : DraftIds]
    \cup [kind : {"http_error"}, code : StatusCodes]
    \cup {[kind |-> "unexpected"], MockRaise}

\* GmailTool.create_draft, or a test double raising a plain Exception
GmailCreateDraft(r) ==
  IF r.kind = "created" THEN Return(r.id)
  ELSE IF r.kind = "http_error" THEN
    GmailAPIError(<<"Gmail", "API", "error", ":", CodeText(r.code), "-", "reason">>,
                  Some(r.code))
  ELSE IF r.kind = "unexpected" THEN
    GmailAPIError(<<"Unexpected", "Gmail", "error", ":", "cause">>, None)
  ELSE PlainException(<<"Gmail", "failed">>)

\* the tool create_gmail_draft of the email agent, on the end g of create_draft
CreateGmailDraft(g) ==
  IF g.kind = "return" THEN Return(<<"Gmail", "draft", "created", "with", "ID", ":", g.value>>)
  ELSE IF "GmailAPIError" \in g.mro THEN g
  ELSE GmailAPIError(<<"Unexpected", "error", ":">> \o g.msg, None)

\* text.split(": ")[-1]
RECURSIVE LastPart(_)
LastPart(text) ==
  IF \E i \in 1..Len(text) : text[i] = ":" THEN LastPart(Tail(text)) ELSE text

\* EmailFail leaving the error field out
EmailFail_NoError(exc, t) ==
  AgentResponse(FALSE, None, <<"Failed", "to", "create", "email", "draft">>, None, t, None)

EmailFail(exc, t) ==
  AgentResponse(FALSE, None, <<"Failed", "to", "create", "email", "draft">>,
                Some(<<"Email", "agent", "failed", ":">> \o exc.msg), t, None)

EmailSuccess(data, usage, t) ==
  AgentResponse(TRUE, data, <<"Email", "draft", "created", "successfully">>, None, t, usage)

\* run_email_agent up to email_agent.run: deps are given or built
EmailEnter(deps_ok, t) ==
  IF deps_ok THEN Await("llm")
  ELSE Respond(EmailFail(GmailAPIError(<<"Failed", "to", "initialize", "Gmail", "service">>,
                                       None), t))

\* run_email_agent from the end o of email_agent.run
EmailOnGenerated(o, t) ==
  IF o.kind = "raise" THEN Respond(EmailFail(o, t))
  ELSE IF o.value.data = None THEN Respond(EmailSuccess(None, o.value.usage, t))
  ELSE Await("gmail")

\* EmailOnDraft treating a failed draft creation as a failure of the run
EmailOnDraft_FailsOnGmail(o, g, t) ==
  LET draft == CHOOSE dr \in o.value.data : TRUE
      created == CreateGmailDraft(g)
  IN IF created.kind = "return"
     THEN Respond(EmailSuccess(Some([draft EXCEPT !.draft_id = Some(LastPart(created.value))]),
                               o.value.usage, t))
     ELSE Respond(EmailFail(created, t))

\* run_email_agent from the end g of gmail_tool.create_draft
EmailOnDraft(o, g, t) ==
  LET draft == CHOOSE dr \in o.value.data : TRUE
      created == CreateGmailDraft(g)
      final == IF created.kind = "return"
               THEN [draft EXCEPT !.draft_id = Some(LastPart(created.value))]
               ELSE draft
  IN Respond(EmailSuccess(Some(final), o.value.usage, t))

\* a fresh request: its own deps, strategy and query, nothing kept
Fresh(strat, tkey, skey, q) ==
  /\ strategy = strat
  /\ tavily_api_key = tkey
  /\ serp_api_key = skey
  /\ tavily_tool = ToolFor(tkey)
  /\ serp_tool = ToolFor(skey)
  /\ query = q
  /\ pc = "START"
  /\ search_results = EmptyResults(q)
  /\ elapsed = 0
  /\ tavily_calls = 0
  /\ serp_calls = 0
  /\ tavily_outcome = NoOutcome
  /\ serp_outcome = NoOutcome
  /\ outcome = NoOutcome
  /\ tavily_response = NoOutcome
  /\ serp_response = NoOutcome
  /\ call_log = <<>>
  /\ call_base = [log |-> 0, time |-> 0]
  /\ own_search = [query |-> q, outcome |-> NoOutcome]
  /\ tool_pc = "NONE"
  /\ tool_runs = 0
  /\ tool_outcome = NoOutcome

Ops == {"search", "research", "email"}

\* the arguments of a top-level operation; what an operation does not take
\* stays at its default
ValidRequest(o, summarize, strat, tkey, skey, q) ==
  /\ o = "search" => summarize
  /\ o = "email" =>
       (summarize /\ strat = "intelligent" /\ tkey = None /\ skey = None /\ q = "x")

Init ==
  /\ requests = 1
  /\ \E o \in Ops, summarize \in BOOLEAN, strat \in Strategies,
        tkey \in Keys, skey \in Keys, q \in Queries :
       /\ ValidRequest(o, summarize, strat, tkey, skey, q)
       /\ Fresh(strat, tkey, skey, q)
       /\ op = o
       /\ create_summary = summarize
       /\ rpc = IF o = "search" THEN "NONE" ELSE "START"
  /\ llm_calls = 0
  /\ llm_outcome = NoOutcome
  /\ gmail_calls = 0
  /\ gmail_outcome = NoOutcome
  /\ response = NoOutcome
  /\ ServerIdle
  /\ ConcIdle

CallEvent(ev, provider) == [ev |-> ev, provider |-> provider]

\* what is drawn for the tool runs of an agent: the query the model asks
\* intelligent_search for, and what the backends and Gmail answer to a tool
ToolQueries == {"y"}
ToolTavilyInputs ==
  {r \in TavilyResponses : \/ r.kind = "ok" /\ r.results = <<"a">> /\ r.answer = None
                           \/ r.kind = "timeout"}
ToolSerpInputs ==
  {r \in SerpResponses : \/ r.kind = "ok" /\ r.results = <<"b">>
                         \/ r.kind = "timeout"}
\* the sources the model hands to format_research_content: each a URL, as
\* the sequence of its tokens
ToolSources ==
  {<<>>, << <<"https", ":", "/", "/", "a">> >>,
   << <<"u1">>, <<"u2">>, <<"u3">>, <<"u4">>, <<"u5">>, <<"u6">> >>}
ToolGmailInputs ==
  {r \in GmailInputs : r.kind = "unexpected" \/ (r.kind = "created" /\ r.id = "d1")}

\* the part of a step common to the steps of an intelligent_search call: r
\* is what the code does next, t the time of the operation. When the call is
\* the research agent's tool (in_tool) and ends, a result goes back to the
\* agent, while an exception leaves research_agent.run (the agent runs its
\* tools unguarded) and is answered by run_research_agent's except clauses
Continue(log, r, t, in_tool) ==
  LET tool_ends == in_tool /\ r.kind # "await"
      run_raises == in_tool /\ r.kind = "raise"
  IN
  /\ pc' = PcOf(r)
  /\ call_log' = IF r.kind = "await" THEN Append(log, CallEvent("start", r.provider)) ELSE log
  /\ tavily_calls' = IF r.kind = "await" /\ r.provider = TAVILY
                     THEN tavily_calls + 1 ELSE tavily_calls
  /\ serp_calls' = IF r.kind = "await" /\ r.provider = SERP
                   THEN serp_calls + 1 ELSE serp_calls
  /\ outcome' = IF r.kind = "await" THEN NoOutcome ELSE r
  /\ tool_pc' = IF in_tool /\ r.kind = "await" THEN "SEARCH"
                ELSE IF in_tool THEN "NONE" ELSE tool_pc
  /\ tool_outcome' = IF tool_ends THEN r ELSE tool_outcome
  /\ llm_outcome' = IF run_raises THEN r ELSE llm_outcome
  /\ rpc' = IF run_raises THEN "DONE" ELSE rpc
  /\ response' = IF run_raises THEN Return(ResearchHandle(r, t)) ELSE response
  /\ UNCHANGED <<requests, strategy, tavily_api_key, serp_api_key,
                 tavily_tool, serp_tool,
                 op, create_summary, llm_calls,
                 gmail_calls, gmail_outcome, own_search>>
  /\ UNCHANGED serverVars
  /\ UNCHANGED concVars

\* intelligent_search is entered and runs to its first await or to its end
Start ==
  /\ pc = "START"
  /\ op = "search" \/ (op = "research" /\ rpc = "SEARCH")
  /\ Continue(call_log, Enter(strategy, query, tavily_tool, serp_tool), elapsed, FALSE)
  /\ UNCHANGED <<query, search_results, elapsed, tavily_outcome, serp_outcome,
                 tavily_response, serp_response, call_base, tool_runs>>

\* the research agent, asked by the model during research_agent.run, runs its
\* tool intelligent_search on a query of the model's choice, with the deps of
\* the request: the call starts from locals of its own
ToolIntelligentSearch ==
  /\ op = "research" /\ rpc = "SUMMARIZE" /\ tool_pc = "NONE"
  /\ tool_runs < MaxToolRuns
  /\ tool_runs' = tool_runs + 1
  /\ \E q \in ToolQueries :
       /\ query' = q
       /\ search_results' = EmptyResults(q)
       /\ Continue(call_log, Enter(strategy, q, tavily_tool, serp_tool), elapsed, TRUE)
  /\ call_base' = [log |-> Len(call_log), time |-> elapsed]
  /\ tavily_outcome' = NoOutcome
  /\ serp_outcome' = NoOutcome
  /\ tavily_response' = NoOutcome
  /\ serp_response' = NoOutcome
  /\ UNCHANGED elapsed

\* the Tavily call ends (returns or raises) and the call runs on
TavilyDone ==
  /\ pc = "TRY_PRIMARY"
  /\ \E d \in 0..MaxDelay :
     \E r \in IF tool_pc = "SEARCH" THEN ToolTavilyInputs ELSE TavilyInputs :
       LET o == TavilyCall(query, r, d)
           next == OnTavily(strategy, search_results, tavily_tool, serp_tool, o,
                            elapsed + d - call_base.time)
       IN
       /\ tavily_response' = r
       /\ tavily_outcome' = o
       /\ elapsed' = elapsed + d
       /\ search_results' = Rebound(search_results, o, next)
       /\ Continue(Append(call_log, CallEvent("end", TAVILY)), next, elapsed + d,
                   tool_pc = "SEARCH")
  /\ UNCHANGED <<query, serp_outcome, serp_response, call_base, tool_runs>>

\* the SerpAPI call ends (returns or raises) and the call runs on
SerpDone ==
  /\ pc = "TRY_SECONDARY"
  /\ \E d \in 0..MaxDelay :
     \E r \in IF tool_pc = "SEARCH" THEN ToolSerpInputs ELSE SerpInputs :
       LET o == SerpCall(query, r, d)
           next == OnSerp(strategy, search_results, tavily_tool, serp_tool, o,
                          elapsed + d - call_base.time)
       IN
       /\ serp_response' = r
       /\ serp_outcome' = o
       /\ elapsed' = elapsed + d
       /\ search_results' = Rebound(search_results, o, next)
       /\ Continue(Append(call_log, CallEvent("end", SERP)), next, elapsed + d,
                   tool_pc = "SEARCH")
  /\ UNCHANGED <<query, tavily_outcome, tavily_response, call_base, tool_runs>>

\* the next call of intelligent_search, with deps of its own
NewRequest ==
  /\ IF op = "search" THEN pc \in {"SUCCESS", "ALL_FAILED"} ELSE rpc = "DONE"
  /\ tool_pc = "NONE"
  /\ requests < MaxRequests
  /\ requests' = requests + 1
  /\ \E o \in Ops, summarize \in BOOLEAN, strat \in Strategies,
        tkey \in Keys, skey \in Keys, q \in Queries :
       /\ ValidRequest(o, summarize, strat, tkey, skey, q)
       /\ op' = o
       /\ create_summary' = summarize
       /\ rpc' = IF o = "search" THEN "NONE" ELSE "START"
       /\ strategy' = strat
       /\ tavily_api_key' = tkey
       /\ serp_api_key' = skey
       /\ tavily_tool' = ToolFor(tkey)
       /\ serp_tool' = ToolFor(skey)
       /\ query' = q
       /\ search_results' = EmptyResults(q)
       /\ own_search' = [query |-> q, outcome |-> NoOutcome]
  /\ call_base' = [log |-> 0, time |-> 0]
  /\ tool_pc' = "NONE"
  /\ tool_runs' = 0
  /\ tool_outcome' = NoOutcome
  /\ pc' = "START"
  /\ elapsed' = 0
  /\ tavily_calls' = 0
  /\ serp_calls' = 0
  /\ tavily_outcome' = NoOutcome
  /\ serp_outcome' = NoOutcome
  /\ outcome' = NoOutcome
  /\ tavily_response' = NoOutcome
  /\ serp_response' = NoOutcome
  /\ call_log' = <<>>
  /\ llm_calls' = 0
  /\ llm_outcome' = NoOutcome
  /\ gmail_calls' = 0
  /\ gmail_outcome' = NoOutcome
  /\ response' = NoOutcome
  /\ UNCHANGED serverVars
  /\ UNCHANGED concVars

\* the part of a step common to the steps of run_research_agent and
\* run_email_agent: r is what the code does next
TopContinue(r) ==
  /\ rpc' = IF r.kind \in {"respond", "raise"} THEN "DONE"
            ELSE IF r.provider = "search" THEN "SEARCH"
            ELSE IF r.provider = "llm" THEN (IF op = "research" THEN "SUMMARIZE" ELSE "GENERATE")
            ELSE "CREATE_DRAFT"
  /\ llm_calls' = IF r.kind = "await" /\ r.provider = "llm" THEN llm_calls + 1 ELSE llm_calls
  /\ gmail_calls' = IF r.kind = "await" /\ r.provider = "gmail"
                    THEN gmail_calls + 1 ELSE gmail_calls
  /\ response' = IF r.kind = "respond" THEN Return(r.value)
                 ELSE IF r.kind = "raise" THEN r
                 ELSE response
  /\ UNCHANGED <<requests, op, create_summary>>
  /\ UNCHANGED searchVars
  /\ UNCHANGED toolVars
  /\ UNCHANGED serverVars
  /\ UNCHANGED concVars

\* run_research_agent is entered: deps are taken or built
ResearchStart ==
  /\ op = "research" /\ rpc = "START"
  /\ \E deps_ok \in BOOLEAN : TopContinue(ResearchEnter(deps_ok, elapsed))
  /\ UNCHANGED <<elapsed, llm_outcome, gmail_outcome, own_search>>

\* intelligent_search has returned or raised and run_research_agent runs on
ResearchSearched ==
  /\ op = "research" /\ rpc = "SEARCH"
  /\ pc \in {"SUCCESS", "ALL_FAILED"}
  /\ own_search' = [own_search EXCEPT !.outcome = outcome]
  /\ TopContinue(ResearchOnSearch(outcome, own_search.query, create_summary, elapsed))
  /\ UNCHANGED <<elapsed, llm_outcome, gmail_outcome>>

\* research_agent.run ends and run_research_agent returns
ResearchSummarized ==
  /\ op = "research" /\ rpc = "SUMMARIZE" /\ tool_pc = "NONE"
  /\ \E d \in 0..MaxDelay : \E o \in ResearchRunOutcomes :
       /\ llm_outcome' = o
       /\ elapsed' = elapsed + d
       /\ TopContinue(ResearchOnSummary(own_search.outcome.value, own_search.query, o,
                                        elapsed + d))
  /\ UNCHANGED <<gmail_outcome, own_search>>

\* run_email_agent is entered: deps are taken or built
EmailStart ==
  /\ op = "email" /\ rpc = "START"
  /\ \E deps_ok \in BOOLEAN : TopContinue(EmailEnter(deps_ok, elapsed))
  /\ UNCHANGED <<elapsed, llm_outcome, gmail_outcome, own_search>>

\* email_agent.run ends and run_email_agent runs on
EmailGenerated ==
  /\ op = "email" /\ rpc = "GENERATE" /\ tool_pc = "NONE"
  /\ \E d \in 0..MaxDelay : \E o \in EmailRunOutcomes :
       /\ llm_outcome' = o
       /\ elapsed' = elapsed + d
       /\ TopContinue(EmailOnGenerated(o, elapsed + d))
  /\ UNCHANGED <<gmail_outcome, own_search>>

\* gmail_tool.create_draft ends and run_email_agent returns
EmailDraftDone ==
  /\ op = "email" /\ rpc = "CREATE_DRAFT"
  /\ \E d \in 0..MaxDelay : \E r \in GmailInputs :
       LET g == GmailCreateDraft(r) IN
       /\ gmail_outcome' = g
       /\ elapsed' = elapsed + d
       /\ TopContinue(EmailOnDraft(llm_outcome, g, elapsed + d))
  /\ UNCHANGED <<llm_outcome, own_search>>

\* what a step of a tool run leaves alone
ToolFrame ==
  /\ UNCHANGED <<requests, op, create_summary, own_search>>
  /\ UNCHANGED <<strategy, tavily_api_key, serp_api_key, tavily_tool, serp_tool,
                 query, pc, search_results, tavily_calls, serp_calls,
                 tavily_outcome, serp_outcome, outcome,
                 tavily_response, serp_response, call_log>>
  /\ UNCHANGED serverVars
  /\ UNCHANGED concVars

\* the email agent, asked by the model during email_agent.run, runs its tool
\* create_gmail_draft, which awaits gmail_tool.create_draft
ToolCreateGmailDraft ==
  /\ op = "email" /\ rpc = "GENERATE" /\ tool_pc = "NONE"
  /\ tool_runs < MaxToolRuns
  /\ tool_runs' = tool_runs + 1
  /\ gmail_calls' = gmail_calls + 1
  /\ tool_pc' = "TOOL_DRAFT"
  /\ call_base' = [call_base EXCEPT !.time = elapsed]
  /\ UNCHANGED <<rpc, elapsed, llm_calls, llm_outcome, gmail_outcome, response,
                 tool_outcome>>
  /\ ToolFrame

\* gmail_tool.create_draft, awaited by the tool create_gmail_draft, ends. A
\* result goes back to the agent; an exception leaves email_agent.run and is
\* answered by run_email_agent's except clause
ToolCreateGmailDraftDone ==
  /\ tool_pc = "TOOL_DRAFT"
  /\ \E d \in 0..MaxDelay : \E r \in ToolGmailInputs :
       LET g == GmailCreateDraft(r)
           created == CreateGmailDraft(g)
       IN
       /\ gmail_outcome' = g
       /\ elapsed' = elapsed + d
       /\ tool_outcome' = created
       /\ llm_outcome' = IF created.kind = "raise" THEN created ELSE llm_outcome
       /\ rpc' = IF created.kind = "raise" THEN "DONE" ELSE rpc
       /\ response' = IF created.kind = "raise"
                      THEN Return(EmailFail(created, elapsed + d)) ELSE response
  /\ tool_pc' = "NONE"
  /\ UNCHANGED <<tool_runs, llm_calls, gmail_calls, call_base>>
  /\ ToolFrame

MaxSourcesListed == 5  \* "Limit to top 5 sources"

\* one list item per source, from source i on: '<li><a href="...">Source i</a></li>'
RECURSIVE SourceItems(_, _)
SourceItems(sources, i) ==
  IF i > Len(sources) THEN <<>>
  ELSE <<"<", "li", ">", "<", "a", "href", "=", "\"">> \o sources[i]
         \o <<"\"", ">", "Source", NumText(i), "<", "/", "a", ">", "<", "/", "li", ">">>
         \o SourceItems(sources, i + 1)

\* format_research_content: the content in a div, followed, when sources are
\* asked for and there are some, by a list of the first MaxSourcesListed
FormatResearchContent(research_content, sources, include_sources) ==
  LET html_content == <<"<div>", research_content, "</div>">> IN
  IF include_sources /\ sources # <<>>
  THEN html_content
         \o <<"<", "h3", ">", "Sources", ":", "<", "/", "h3", ">", "<", "ul", ">">>
         \o SourceItems(IF Len(sources) > MaxSourcesListed
                        THEN SubSeq(sources, 1, MaxSourcesListed) ELSE sources, 1)
         \o <<"<", "/", "ul", ">">>
  ELSE html_content

\* the email agent runs its tool format_research_content, on arguments of the
\* model's choice; the tool touches nothing but its arguments
ToolFormatResearchContent ==
  /\ op = "email" /\ rpc = "GENERATE" /\ tool_pc = "NONE"
  /\ tool_runs < MaxToolRuns
  /\ tool_runs' = tool_runs + 1
  /\ \E sources \in ToolSources, include_sources \in BOOLEAN :
       tool_outcome' = Return(FormatResearchContent("research_content", sources,
                                                    include_sources))
  /\ UNCHANGED <<rpc, elapsed, llm_calls, llm_outcome, gmail_calls, gmail_outcome,
                 response, tool_pc, call_base>>
  /\ ToolFrame

\* create_email_draft's return value. The tone the model asks for is checked
\* when the ResearchEmailRequest is built; EmailAgentDeps is then given
\* settings, which AgentDependencies.__init__ also passes on itself, so that
\* the constructor raises a TypeError. The tool's own except clause turns
\* either exception into a text, and run_email_agent is never reached
CreateEmailDraft(tone_ok) ==
  IF ~tone_ok
  THEN Return(<<"Email", "creation", "failed", ":", "1", "validation", "error", "for",
                "ResearchEmailRequest">>)
  ELSE Return(<<"Email", "creation", "failed", ":", "got", "multiple", "values", "for",
                "keyword", "argument", "'settings'">>)

\* the research agent, asked by the model during research_agent.run, runs its
\* tool create_email_draft, which returns its text to the agent
ToolCreateEmailDraft ==
  /\ op = "research" /\ rpc = "SUMMARIZE" /\ tool_pc = "NONE"
  /\ tool_runs < MaxToolRuns
  /\ tool_runs' = tool_runs + 1
  /\ \E tone_ok \in BOOLEAN : tool_outcome' = CreateEmailDraft(tone_ok)
  /\ UNCHANGED <<rpc, elapsed, llm_calls, llm_outcome, gmail_calls, gmail_outcome,
                 response, tool_pc, call_base>>
  /\ ToolFrame

Next ==
  \/ Start \/ TavilyDone \/ SerpDone \/ NewRequest
  \/ ResearchStart \/ ResearchSearched \/ ResearchSummarized
  \/ EmailStart \/ EmailGenerated \/ EmailDraftDone
  \/ ToolIntelligentSearch \/ ToolCreateEmailDraft
  \/ ToolCreateGmailDraft \/ ToolCreateGmailDraftDone \/ ToolFormatResearchContent

Spec == Init /\ [][Next]_vars

\* every provider call that was started ends: the clients give each request a
\* timeout (httpx timeout=self.timeout)
LiveSpec == Init /\ [][Next]_vars /\ WF_vars(TavilyDone) /\ WF_vars(SerpDone)

\* --------------------------------------------- n8n_integration.py (pure part)
TavilyMax == 50        \* "Tavily max is 50"
SerpMax == 100         \* "Google max is 100"

Min(a, b) == IF a < b THEN a ELSE b

\* TavilyPayload sending the requested number of results as it is
TavilyPayload_NoClamp(q, max_results) ==
  [provider |-> TAVILY, query |-> q, max_results |-> max_results]

\* the payload TavilySearchTool.search posts to the backend
TavilyPayload(q, max_results) ==
  [provider |-> TAVILY, query |-> q, max_results |-> Min(max_results, TavilyMax)]

\* the parameters SerpSearchTool.search sends to the backend
SerpParams(q, max_results) ==
  [provider |-> SERP, q |-> q, num |-> Min(max_results, SerpMax)]

\* what a call did: what it returned or raised, the requests it sent to the
\* backends, and the strategy intelligent_search read (None if it never ran)
Did(r, requests_sent, strat) ==
  [result |-> r, sent |-> requests_sent, strategy_run |-> strat]

\* intelligent_search run from its entry to its end, the backends answering
\* ta (Tavily) and sa (SerpAPI) to the requests they receive
IntelligentSearchRun(strat, q, max_results, tav, serp, ta, sa) ==
  LET sr0 == EmptyResults(q)
      r0 == Enter(strat, q, tav, serp)
      tp == TavilyPayload(q, max_results)
      sp == SerpParams(q, max_results)
  IN IF r0.kind # "await" THEN Did(r0, <<>>, Some(strat))
     ELSE IF r0.provider = TAVILY THEN
       LET o1 == TavilyCall(q, ta, 0)
           sr1 == IF o1.kind = "return" THEN o1.value ELSE sr0
           r1 == OnTavily(strat, sr0, tav, serp, o1, 0)
       IN IF r1.kind # "await" THEN Did(r1, <<tp>>, Some(strat))
          ELSE Did(OnSerp(strat, sr1, tav, serp, SerpCall(q, sa, 0), 0),
                   <<tp, sp>>, Some(strat))
     ELSE Did(OnSerp(strat, sr0, tav, serp, SerpCall(q, sa, 0), 0), <<sp>>, Some(strat))

ValueError(m) ==
  [kind |-> "raise", type |-> "ValueError", mro |-> {"ValueError", "Exception"},
   msg |-> m, provider |-> None, status_code |-> None]

RuntimeError(m) ==
  [kind |-> "raise", type |-> "RuntimeError", mro |-> {"RuntimeError", "Exception"},
   msg |-> m, provider |-> None, status_code |-> None]

\* the dictionary every n8n_* function returns from its except clause
FailureDict(exc, q) ==
  [success |-> FALSE, error |-> exc.msg, query |-> q, results |-> <<>>]

\* one result converted by n8n_intelligent_search
N8nItem(r) ==
  [title |-> r.title, url |-> r.url, provider |-> r.provider,
   content |-> IF r.class = "TavilySearchResult" THEN "content" ELSE "snippet",
   position |-> IF r.class = "SerpSearchResult" THEN r.position ELSE 0]

\* n8n_intelligent_search: deps of its own, the strategy written into their
\* settings, the search, the conversion; every exception ends in FailureDict
N8nIntelligentSearch(q, max_results, search_strategy, e, b) ==
  IF ~e.settings_ok
  THEN Did(Return(FailureDict(PlainException(<<"settings", "invalid">>), q)), <<>>, None)
  ELSE
    LET run == IntelligentSearchRun(search_strategy, q, max_results,
                                    ToolFor(e.tavily_api_key), ToolFor(e.serp_api_key),
                                    b.tavily, b.serp)
        o == run.result
    IN IF o.kind = "raise" THEN Did(Return(FailureDict(o, q)), run.sent, run.strategy_run)
       ELSE Did(Return([success |-> TRUE,
                        query |-> q,
                        total_results |-> Len(o.value.results),
                        search_time |-> o.value.search_time,
                        providers_used |-> o.value.providers_used,
                        ai_summary |-> o.value.ai_summary,
                        results |-> [i \in 1..Len(o.value.results) |->
                                       N8nItem(o.value.results[i])],
                        timestamp |-> "isoformat"]),
                run.sent, run.strategy_run)

\* n8n_tavily_search: the key from the environment, one call of the client
N8nTavilySearch(q, max_results, e, b) ==
  IF ~ToolFor(e.tavily_api_key)
  THEN Did(Return(FailureDict(ValueError(<<"TAVILY_API_KEY", "not", "found", "in",
                                           "environment">>), q)), <<>>, None)
  ELSE
    LET o == TavilySearch(q, TRUE, b.tavily, 0)
    IN IF o.kind = "raise" THEN Did(Return(FailureDict(o, q)), <<TavilyPayload(q, max_results)>>, None)
       ELSE Did(Return([success |-> TRUE,
                        query |-> q,
                        total_results |-> Len(o.value.results),
                        search_time |-> o.value.search_time,
                        ai_summary |-> o.value.ai_summary,
                        results |-> [i \in 1..Len(o.value.results) |->
                                       [title |-> o.value.results[i].title,
                                        url |-> o.value.results[i].url,
                                        content |-> "content",
                                        provider |-> "tavily"]]]),
                <<TavilyPayload(q, max_results)>>, None)

\* n8n_serp_search: the key from the environment, one call of the client
N8nSerpSearch(q, max_results, e, b) ==
  IF ~ToolFor(e.serp_api_key)
  THEN Did(Return(FailureDict(ValueError(<<"SERP_API_KEY", "not", "found", "in",
                                           "environment">>), q)), <<>>, None)
  ELSE
    LET o == SerpSearch(q, b.serp, 0)
    IN IF o.kind = "raise" THEN Did(Return(FailureDict(o, q)), <<SerpParams(q, max_results)>>, None)
       ELSE Did(Return([success |-> TRUE,
                        query |-> q,
                        total_results |-> Len(o.value.results),
                        search_time |-> o.value.search_time,
                        results |-> [i \in 1..Len(o.value.results) |->
                                       [title |-> o.value.results[i].title,
                                        url |-> o.value.results[i].url,
                                        snippet |-> "snippet",
                                        position |-> o.value.results[i].position,
                                        provider |-> "serp"]]]),
                <<SerpParams(q, max_results)>>, None)

\* asyncio.run(coroutine): refused in a thread whose event loop is running,
\* and then the coroutine is never started; otherwise the coroutine's end
AsyncioRun(running_loop, call) ==
  IF running_loop
  THEN Did(RuntimeError(<<"asyncio.run()", "cannot", "be", "called", "from", "a",
                          "running", "event", "loop">>), <<>>, None)
  ELSE call

\* sync_intelligent_search(query, max_results): no strategy is passed on, so
\* n8n_intelligent_search runs with its default, "intelligent"
SyncIntelligentSearch(q, max_results, running_loop, e, b) ==
  AsyncioRun(running_loop, N8nIntelligentSearch(q, max_results, "intelligent", e, b))

SyncTavilySearch(q, max_results, running_loop, e, b) ==
  AsyncioRun(running_loop, N8nTavilySearch(q, max_results, e, b))

SyncSerpSearch(q, max_results, running_loop, e, b) ==
  AsyncioRun(running_loop, N8nSerpSearch(q, max_results, e, b))

\* ----------------------------------------------- fastapi_server.py (pure part)
MaxBatch == 10         \* "Maximum 10 queries per batch"
MaxHttpResults == 20   \* "max_results must be between 1 and 20"

ServerQueries == {"x", " x ", " ", ""}

\* str.strip() on the queries of the model
Strip(q) == IF q \in {" ", ""} THEN "" ELSE IF q = " x " THEN "x" ELSE q

StatusText(c) == IF c = 400 THEN "400" ELSE IF c = 500 THEN "500" ELSE "200"

\* the exception a handler raises; str() of it is "<status>: <detail>"
HTTPException(status, detail) ==
  [kind |-> "raise", type |-> "HTTPException", mro |-> {"HTTPException", "Exception"},
   msg |-> <<StatusText(status), ":">> \o detail, provider |-> None,
   status_code |-> Some(status), detail |-> detail]

\* the answer a client of the server receives: the body a handler returned
\* (status 200) or the status and detail of the HTTPException that left it
Http(status, detail, body) ==
  [kind |-> "http", status |-> status, detail |-> detail, body |-> body]

Answered(exc) == Http(CHOOSE c \in exc.status_code : TRUE, exc.detail, None)

\* the fields of SearchResponse without a default
SearchResponseRequired ==
  {"success", "query", "total_results", "search_time", "providers_used", "results"}

\* SearchResponse(**result)
SearchResponse(dict) ==
  IF SearchResponseRequired \subseteq DOMAIN dict THEN Return(dict)
  ELSE PlainException(<<"validation", "error", "for", "SearchResponse", ":",
                        "Field", "required">>)

\* a search handler from the end of its sync_* call: an exception of the
\* call or of SearchResponse is answered by "except Exception", a failure
\* dictionary by the handler's own HTTPException
AfterSync(call, prefix) ==
  LET r == call.result
  IN IF r.kind = "raise" THEN Answered(HTTPException(500, prefix \o r.msg))
     ELSE IF ~r.value.success THEN Answered(HTTPException(500, r.value.error))
     ELSE LET v == SearchResponse(r.value)
          IN IF v.kind = "raise" THEN Answered(HTTPException(500, prefix \o v.msg))
             ELSE Http(200, <<>>, Some(v.value))

\* POST /search
PostSearchHandler(req, e, b) ==
  IF Strip(req.query) = ""
  THEN Did(Answered(HTTPException(400, <<"Query", "cannot", "be", "empty">>)), <<>>, None)
  ELSE IF req.max_results < 1 \/ req.max_results > MaxHttpResults
  THEN Did(Answered(HTTPException(400, <<"max_results", "must", "be", "between",
                                         "1", "and", "20">>)), <<>>, None)
  ELSE LET call == SyncIntelligentSearch(Strip(req.query), req.max_results, TRUE, e, b)
       IN Did(AfterSync(call, <<"Internal", "server", "error", ":">>),
              call.sent, call.strategy_run)

\* POST /search/tavily
PostSearchTavilyHandler(req, e, b) ==
  IF Strip(req.query) = ""
  THEN Did(Answered(HTTPException(400, <<"Query", "cannot", "be", "empty">>)), <<>>, None)
  ELSE LET call == SyncTavilySearch(Strip(req.query), req.max_results, TRUE, e, b)
       IN Did(AfterSync(call, <<"Tavily", "search", "error", ":">>),
              call.sent, call.strategy_run)

\* POST /search/serp
PostSearchSerpHandler(req, e, b) ==
  IF Strip(req.query) = ""
  THEN Did(Answered(HTTPException(400, <<"Query", "cannot", "be", "empty">>)), <<>>, None)
  ELSE LET call == SyncSerpSearch(Strip(req.query), req.max_results, TRUE, e, b)
       IN Did(AfterSync(call, <<"SerpAPI", "search", "error", ":">>),
              call.sent, call.strategy_run)

NonBlank(queries) == SelectSeq(queries, LAMBDA q : Strip(q) # "")

\* the requests sent by the first n calls of a batch
RECURSIVE SentBy(_, _)
SentBy(calls, n) == IF n = 0 THEN <<>> ELSE SentBy(calls, n - 1) \o calls[n].sent

\* POST /search/batch: every exception of the body, the HTTPException of the
\* length check included, is answered by "except Exception" with status 500
BatchSearchHandler(queries, max_results_per_query, e, b) ==
  LET prefix == <<"Batch", "search", "error", ":">>
  IN IF Len(queries) > MaxBatch
     THEN Did(Answered(HTTPException(500,
                prefix \o HTTPException(400, <<"Maximum", "10", "queries", "per",
                                               "batch">>).msg)), <<>>, None)
     ELSE
       LET todo == NonBlank(queries)
           calls == [i \in 1..Len(todo) |->
                       SyncIntelligentSearch(Strip(todo[i]), max_results_per_query, TRUE, e, b)]
           raising == {i \in 1..Len(todo) : calls[i].result.kind = "raise"}
       IN IF raising # {}
          THEN LET first == CHOOSE i \in raising : \A j \in raising : i <= j
               IN Did(Answered(HTTPException(500, prefix \o calls[first].result.msg)),
                      SentBy(calls, first), None)
          ELSE Did(Http(200, <<>>,
                        Some([success |-> TRUE, total_queries |-> Len(calls),
                              results |-> [i \in 1..Len(calls) |-> calls[i].result.value]])),
                   SentBy(calls, Len(calls)), None)

\* ------------------------------------------- the integration layer, call by call
MaxResultsValues == {1, TavilyMax, TavilyMax + 1, SerpMax, SerpMax + 1}
HttpMaxResultsValues == {0, 1, MaxHttpResults, MaxHttpResults + 1}

Environments ==
  [tavily_api_key : Keys, serp_api_key : {None, Some("key")}, settings_ok : BOOLEAN]

\* what the two backends answer: a result list of at most one item, a
\* timeout, or HTTP status 500
Backends ==
  [tavily : {r \in TavilyResponses :
               \/ r.kind = "ok" /\ Len(r.results) <= 1 /\ r.answer = None
               \/ r.kind = "timeout"
               \/ r.kind = "status" /\ r.code = 500 /\ r.body = "text"},
   serp : {r \in SerpResponses :
             \/ r.kind = "ok" /\ Len(r.results) <= 1
             \/ r.kind = "timeout"}]

BatchInputs ==
  SeqsUpTo({"x", " "}, 2)
    \cup {[i \in 1..n |-> "x"] : n \in {MaxBatch, MaxBatch + 1}}
    \cup {[i \in 1..n |-> IF i = 1 THEN " " ELSE "x"] : n \in {MaxBatch, MaxBatch + 1}}

\* the idle state of the orchestrator, in which the calls below are made
MainIdle ==
  /\ requests = 1
  /\ Fresh("intelligent", None, None, "x")
  /\ op = "search"
  /\ create_summary = TRUE
  /\ rpc = "NONE"
  /\ llm_calls = 0
  /\ llm_outcome = NoOutcome
  /\ gmail_calls = 0
  /\ gmail_outcome = NoOutcome
  /\ response = NoOutcome

ServerInit == MainIdle /\ ServerIdle /\ ConcIdle

\* a call that sends the requests of call.sent one after the other, once n
\* of them have been answered: suspended at the await of request n + 1, or
\* at its end
Progress(call, n) ==
  IF n < Len(call.sent)
  THEN Did(NoOutcome, SubSeq(call.sent, 1, n + 1), call.strategy_run)
  ELSE call

\* the function called, on its arguments
CallOf(ep, req, e, b) ==
  IF ep = "n8n_intelligent_search"
  THEN N8nIntelligentSearch(req.query, req.max_results, req.search_strategy, e, b)
  ELSE IF ep = "n8n_tavily_search" THEN N8nTavilySearch(req.query, req.max_results, e, b)
  ELSE IF ep = "n8n_serp_search" THEN N8nSerpSearch(req.query, req.max_results, e, b)
  ELSE IF ep = "sync_tavily_search"
  THEN SyncTavilySearch(req.query, req.max_results, FALSE, e, b)
  ELSE IF ep = "sync_serp_search"
  THEN SyncSerpSearch(req.query, req.max_results, FALSE, e, b)
  ELSE SyncIntelligentSearch(req.query, req.max_results, FALSE, e, b)

\* a function of n8n_integration.py is called and runs to its first
\* "await tool.search(...)", where it is suspended, or to its end
Begin(ep, req, e, b, call) ==
  LET first == Progress(call, 0)
  IN /\ endpoint' = ep
     /\ request' = req
     /\ environ' = e
     /\ backend' = b
     /\ sent' = first.sent
     /\ strategy_run' = first.strategy_run
     /\ result' = first.result
     /\ UNCHANGED mainVars
     /\ UNCHANGED concVars

\* the backend answers the request the call is suspended on, and the call
\* runs on to its next await or to its end
Answer(provider) ==
  /\ endpoint # "none"
  /\ result = NoOutcome
  /\ sent # <<>>
  /\ sent[Len(sent)].provider = provider
  /\ LET after == Progress(CallOf(endpoint, request, environ, backend), Len(sent))
     IN /\ sent' = after.sent
        /\ result' = after.result
  /\ UNCHANGED <<endpoint, request, environ, backend, strategy_run>>
  /\ UNCHANGED mainVars
  /\ UNCHANGED concVars

\* an endpoint of fastapi_server.py, from its arguments to its answer: the
\* handlers call the sync_* functions inside the running event loop, so that
\* no request is sent and nothing is awaited
Serve(ep, req, e, b, did) ==
  /\ endpoint' = ep
  /\ request' = req
  /\ environ' = e
  /\ backend' = b
  /\ sent' = did.sent
  /\ strategy_run' = did.strategy_run
  /\ result' = did.result
  /\ UNCHANGED mainVars
  /\ UNCHANGED concVars

CallN8nIntelligentSearch ==
  /\ endpoint = "none"
  /\ \E m \in MaxResultsValues, st \in Strategies, e \in Environments, b \in Backends :
         Begin("n8n_intelligent_search",
               [query |-> "x", max_results |-> m, search_strategy |-> st], e, b,
               N8nIntelligentSearch("x", m, st, e, b))

CallN8nTavilySearch ==
  /\ endpoint = "none"
  /\ \E m \in MaxResultsValues, e \in Environments, b \in Backends :
         Begin("n8n_tavily_search",
               [query |-> "x", max_results |-> m], e, b,
               N8nTavilySearch("x", m, e, b))

CallN8nSerpSearch ==
  /\ endpoint = "none"
  /\ \E m \in MaxResultsValues, e \in Environments, b \in Backends :
         Begin("n8n_serp_search",
               [query |-> "x", max_results |-> m], e, b,
               N8nSerpSearch("x", m, e, b))

\* sync_intelligent_search called from synchronous code: no loop is running,
\* and asyncio.run blocks the calling thread while the requests are in flight
CallSyncIntelligentSearch ==
  /\ endpoint = "none"
  /\ \E m \in MaxResultsValues, e \in Environments, b \in Backends :
         Begin("sync_intelligent_search",
               [query |-> "x", max_results |-> m], e, b,
               SyncIntelligentSearch("x", m, FALSE, e, b))

\* sync_tavily_search called from synchronous code
CallSyncTavilySearch ==
  /\ endpoint = "none"
  /\ \E m \in MaxResultsValues, e \in Environments, b \in Backends :
         Begin("sync_tavily_search",
               [query |-> "x", max_results |-> m], e, b,
               SyncTavilySearch("x", m, FALSE, e, b))

\* sync_serp_search called from synchronous code
CallSyncSerpSearch ==
  /\ endpoint = "none"
  /\ \E m \in MaxResultsValues, e \in Environments, b \in Backends :
         Begin("sync_serp_search",
               [query |-> "x", max_results |-> m], e, b,
               SyncSerpSearch("x", m, FALSE, e, b))

\* the Tavily backend answers the request in flight
TavilyAnswers == Answer(TAVILY)

\* the SerpAPI backend answers the request in flight
SerpAnswers == Answer(SERP)

PostSearch ==
  /\ endpoint = "none"
  /\ \E q \in ServerQueries, m \in HttpMaxResultsValues, st \in Strategies,
        e \in Environments, b \in Backends :
         LET req == [query |-> q, max_results |-> m, search_strategy |-> st]
         IN Serve("POST /search", req, e, b, PostSearchHandler(req, e, b))

PostSearchTavily ==
  /\ endpoint = "none"
  /\ \E q \in ServerQueries, m \in HttpMaxResultsValues, e \in Environments, b \in Backends :
         LET req == [query |-> q, max_results |-> m, search_strategy |-> "intelligent"]
         IN Serve("POST /search/tavily", req, e, b, PostSearchTavilyHandler(req, e, b))

PostSearchSerp ==
  /\ endpoint = "none"
  /\ \E q \in ServerQueries, m \in HttpMaxResultsValues, e \in Environments, b \in Backends :
         LET req == [query |-> q, max_results |-> m, search_strategy |-> "intelligent"]
         IN Serve("POST /search/serp", req, e, b, PostSearchSerpHandler(req, e, b))

PostSearchBatch ==
  /\ endpoint = "none"
  /\ \E qs \in BatchInputs, e \in Environments, b \in Backends :
         Serve("POST /search/batch", [queries |-> qs, max_results_per_query |-> 3], e, b,
               BatchSearchHandler(qs, 3, e, b))

ServerNext ==
  \/ CallN8nIntelligentSearch \/ CallN8nTavilySearch \/ CallN8nSerpSearch
  \/ CallSyncIntelligentSearch \/ CallSyncTavilySearch \/ CallSyncSerpSearch
  \/ TavilyAnswers \/ SerpAnswers
  \/ PostSearch \/ PostSearchTavily \/ PostSearchSerp \/ PostSearchBatch

ServerSpec == ServerInit /\ [][ServerNext]_vars

\* ------------------------------- n8n_intelligent_search calls side by side
MaxConcurrent == 2     \* number of calls running side by side

Slots == 1..MaxConcurrent

\* what a backend answers to one of the concurrent calls
ConcTavilyAnswers ==
  {r \in TavilyResponses : \/ r.kind = "ok" /\ r.results = <<"a">> /\ r.answer = None
                           \/ r.kind = "timeout"}
ConcSerpAnswers ==
  {r \in SerpResponses : \/ r.kind = "ok" /\ r.results = <<"b">>
                         \/ r.kind = "timeout"}

\* a call before its first step: the strategy it was given and what the
\* backends will answer to it
NewSlot(want, ta, sa) ==
  [pos |-> "NEW", want |-> want, ta |-> ta, sa |-> sa,
   settings |-> 0, strategy |-> "none", tav |-> FALSE, serp |-> FALSE,
   sr |-> EmptyResults("x"), called |-> <<>>, outcome |-> NoOutcome]

\* deps.settings being the module-level settings instance
NewSettings_Global(heap) == 1

\* AgentDependencies.__init__: settings = Settings(), an object of its own
NewSettings(heap) == Len(heap) + 1

ConcInit ==
  /\ MainIdle
  /\ endpoint = "n8n_intelligent_search"
  /\ request = NoOutcome
  /\ environ \in [tavily_api_key : {None, Some("key")}, serp_api_key : {Some("key")},
                  settings_ok : {TRUE}]
  /\ backend = NoOutcome
  /\ sent = <<>>
  /\ strategy_run = None
  /\ result = NoOutcome
  /\ settings_heap = <<"intelligent">>
  /\ slots \in [Slots -> {NewSlot(want, ta, sa) :
                            want \in Strategies, ta \in ConcTavilyAnswers,
                            sa \in ConcSerpAnswers}]

\* deps = ResearchAgentDeps()
BuildDeps(c) ==
  /\ slots[c].pos = "NEW"
  /\ LET id == NewSettings(settings_heap)
     IN /\ settings_heap' = IF id > Len(settings_heap)
                            THEN Append(settings_heap, "intelligent")
                            ELSE settings_heap
        /\ slots' = [slots EXCEPT ![c].pos = "BUILT",
                                  ![c].settings = id,
                                  ![c].tav = ToolFor(environ.tavily_api_key),
                                  ![c].serp = ToolFor(environ.serp_api_key)]
  /\ UNCHANGED <<mainVars, serverVars>>

\* deps.settings.search_strategy = search_strategy
SetStrategy(c) ==
  /\ slots[c].pos = "BUILT"
  /\ settings_heap' = [settings_heap EXCEPT ![slots[c].settings] = slots[c].want]
  /\ slots' = [slots EXCEPT ![c].pos = "SET"]
  /\ UNCHANGED <<mainVars, serverVars>>

\* a step of intelligent_search in call c: r is what the code does next
Advance(c, strat, sr, r) ==
  slots' = [slots EXCEPT ![c].pos = PcOf(r),
                         ![c].strategy = strat,
                         ![c].sr = sr,
                         ![c].called = IF r.kind = "await"
                                       THEN Append(@, r.provider) ELSE @,
                         ![c].outcome = IF r.kind = "await" THEN NoOutcome ELSE r]

\* intelligent_search is entered: strategy = ctx.deps.settings.search_strategy
EnterSearch(c) ==
  /\ slots[c].pos = "SET"
  /\ LET strat == settings_heap[slots[c].settings]
     IN Advance(c, strat, slots[c].sr, Enter(strat, "x", slots[c].tav, slots[c].serp))
  /\ UNCHANGED <<mainVars, serverVars, settings_heap>>

TavilyEnds(c) ==
  /\ slots[c].pos = "TRY_PRIMARY"
  /\ LET o == TavilyCall("x", slots[c].ta, 0)
         r == OnTavily(slots[c].strategy, slots[c].sr, slots[c].tav, slots[c].serp, o, 0)
     IN Advance(c, slots[c].strategy, Rebound(slots[c].sr, o, r), r)
  /\ UNCHANGED <<mainVars, serverVars, settings_heap>>

SerpEnds(c) ==
  /\ slots[c].pos = "TRY_SECONDARY"
  /\ LET o == SerpCall("x", slots[c].sa, 0)
         r == OnSerp(slots[c].strategy, slots[c].sr, slots[c].tav, slots[c].serp, o, 0)
     IN Advance(c, slots[c].strategy, Rebound(slots[c].sr, o, r), r)
  /\ UNCHANGED <<mainVars, serverVars, settings_heap>>

\* the calls may run in threads of their own (the sync_* wrappers), so their
\* steps interleave in every order
ConcNext ==
  \E c \in Slots :
    \/ BuildDeps(c) \/ SetStrategy(c) \/ EnterSearch(c) \/ TavilyEnds(c) \/ SerpEnds(c)

ConcSpec == ConcInit /\ [][ConcNext]_vars

\* ------------------------------------------------------------------ claims
Names(msg, name) == \E i \in 1..Len(msg) : msg[i] = name

\* the provider calls of the intelligent_search call under way (or of the last
\* one, once it has ended), and how many of them went to a provider
ThisCall == SubSeq(call_log, call_base.log + 1, Len(call_log))
CallsTo(provider) ==
  Cardinality({i \in 1..Len(ThisCall) : ThisCall[i] = CallEvent("start", provider)})

Intelligent == strategy = "intelligent"
BothConfigured == tavily_tool /\ serp_tool
Ended == pc \in {"SUCCESS", "ALL_FAILED"}
Returned == pc = "SUCCESS" /\ outcome.kind = "return"
RaisedSearchError == pc = "ALL_FAILED" /\ outcome.kind = "raise" /\ "SearchError" \in outcome.mro
NonEmpty(o) == o.kind = "return" /\ Len(o.value.results) > 0
EmptyList(o) == o.kind = "return" /\ Len(o.value.results) = 0
Raised(o) == o.kind = "raise"

\* C1: in intelligent mode with both providers configured, a non-empty Tavily
\* result ends the call with an envelope whose providers_used is [tavily], and
\* SerpAPI's search is not invoked.
C1_TavilyFirst ==
  (Intelligent /\ BothConfigured /\ NonEmpty(tavily_outcome)) =>
    /\ Returned
    /\ outcome.value.providers_used = <<TAVILY>>
    /\ CallsTo(SERP) = 0
    /\ serp_outcome = NoOutcome

C1_Witness ==
  Intelligent /\ BothConfigured /\ NonEmpty(tavily_outcome) /\ Returned
    /\ Len(outcome.value.results) = MaxItems

\* C2: in intelligent mode with both providers configured, when Tavily's search
\* raises (a timeout included) and SerpAPI's returns a non-empty list, the call
\* returns an envelope with providers_used = [serp], each client invoked once.
C2_FallbackToSerp ==
  (Intelligent /\ BothConfigured /\ Raised(tavily_outcome) /\ NonEmpty(serp_outcome)) =>
    /\ Returned
    /\ outcome.value.providers_used = <<SERP>>
    /\ outcome.value.results = serp_outcome.value.results
    /\ CallsTo(TAVILY) = 1
    /\ CallsTo(SERP) = 1

C2_Witness ==
  Intelligent /\ BothConfigured /\ Raised(tavily_outcome) /\ NonEmpty(serp_outcome)
    /\ Contains(tavily_outcome.msg, <<"timeout">>) /\ Returned

\* C3: in intelligent mode with both providers configured, when both searches
\* raise, the call raises a SearchError whose message names Tavily and SerpAPI.
C3_BothFailNamesBoth ==
  (Intelligent /\ BothConfigured /\ Raised(tavily_outcome) /\ Raised(serp_outcome)) =>
    /\ RaisedSearchError
    /\ Names(outcome.msg, "Tavily")
    /\ Names(outcome.msg, "SerpAPI")

C3_Witness ==
  Intelligent /\ BothConfigured /\ Raised(tavily_outcome) /\ Raised(serp_outcome)
    /\ RaisedSearchError /\ CallsTo(TAVILY) = 1 /\ CallsTo(SERP) = 1

\* C4: in intelligent mode with both providers configured, when both searches
\* raise, the SearchError message contains "All configured providers failed".
C4_BothFailConfiguredText ==
  (Intelligent /\ BothConfigured /\ Raised(tavily_outcome) /\ Raised(serp_outcome)) =>
    /\ RaisedSearchError
    /\ Contains(outcome.msg, <<"All", "configured", "providers", "failed">>)

NoProvidersMessage == <<"No", "search", "providers", "configured">>

\* C5: in intelligent mode with neither provider configured, the call raises
\* SearchError("No search providers configured") without invoking a client, and
\* no failure with a provider configured carries that message.
C5_NoProvidersConfigured ==
  /\ (Intelligent /\ ~tavily_tool /\ ~serp_tool /\ pc # "START") =>
       /\ RaisedSearchError
       /\ outcome.msg = NoProvidersMessage
       /\ CallsTo(TAVILY) = 0 /\ CallsTo(SERP) = 0
       /\ tavily_outcome = NoOutcome /\ serp_outcome = NoOutcome
  /\ ((tavily_tool \/ serp_tool) /\ outcome.kind = "raise") =>
       outcome.msg # NoProvidersMessage

C5_Witness ==
  Intelligent /\ ~tavily_tool /\ ~serp_tool /\ RaisedSearchError
    /\ outcome.msg = NoProvidersMessage

C5_WitnessConfiguredFailure ==
  Intelligent /\ tavily_tool /\ ~serp_tool /\ RaisedSearchError
    /\ EmptyList(tavily_outcome)

\* C6: under tavily_only SerpAPI's client is never invoked and under serp_only
\* Tavily's never is, whatever the selected provider does; a failure of the
\* selected provider ends the call with a SearchError and no fallback.
C6_SingleProviderOnly ==
  /\ strategy = "tavily_only" => (CallsTo(SERP) = 0 /\ serp_outcome = NoOutcome)
  /\ strategy = "serp_only" => (CallsTo(TAVILY) = 0 /\ tavily_outcome = NoOutcome)
  /\ (strategy = "tavily_only" /\ Raised(tavily_outcome)) =>
       /\ RaisedSearchError
       /\ "SearchError" \in tavily_outcome.mro => outcome = tavily_outcome
  /\ (strategy = "serp_only" /\ Raised(serp_outcome)) =>
       /\ RaisedSearchError
       /\ "SearchError" \in serp_outcome.mro => outcome = serp_outcome

C6_Witness ==
  strategy = "tavily_only" /\ serp_tool /\ Raised(tavily_outcome) /\ RaisedSearchError

C6_WitnessSerp ==
  strategy = "serp_only" /\ tavily_tool /\ EmptyList(serp_outcome) /\ Ended

NotConfigured(key) == key = None \/ key = Some("")

\* C7: under tavily_only (serp_only) without the Tavily (SerpAPI) key, the call
\* raises a SearchError naming the missing credential before any provider call,
\* also when the other provider is configured.
C7_MissingCredential ==
  /\ (strategy = "tavily_only" /\ NotConfigured(tavily_api_key) /\ pc # "START") =>
       /\ RaisedSearchError
       /\ Contains(outcome.msg, <<"Tavily", "API", "key", "not", "configured">>)
       /\ ~Names(outcome.msg, "SerpAPI")
       /\ CallsTo(TAVILY) = 0 /\ CallsTo(SERP) = 0
  /\ (strategy = "serp_only" /\ NotConfigured(serp_api_key) /\ pc # "START") =>
       /\ RaisedSearchError
       /\ Contains(outcome.msg, <<"SerpAPI", "key", "not", "configured">>)
       /\ ~Names(outcome.msg, "Tavily")
       /\ CallsTo(TAVILY) = 0 /\ CallsTo(SERP) = 0

C7_Witness ==
  strategy = "tavily_only" /\ NotConfigured(tavily_api_key) /\ serp_tool
    /\ RaisedSearchError

C7_WitnessSerp ==
  strategy = "serp_only" /\ serp_api_key = Some("") /\ tavily_tool /\ RaisedSearchError

\* some provider call of this request returned a non-empty result list
SomeProviderYielded == NonEmpty(tavily_outcome) \/ NonEmpty(serp_outcome)

\* C8: under every strategy the call returns an envelope only when some provider
\* yielded a non-empty result list, and raises SearchError whenever none did.
C8_ReturnsOnlyNonEmpty ==
  Ended => IF SomeProviderYielded THEN Returned ELSE RaisedSearchError

\* C9: in intelligent mode a failure with a provider configured names only
\* configured providers: not Tavily when only SerpAPI is configured, and not
\* SerpAPI when only Tavily is.
C9_NamesOnlyConfigured ==
  (Intelligent /\ (tavily_tool \/ serp_tool) /\ outcome.kind = "raise") =>
    /\ Names(outcome.msg, "Tavily") => tavily_tool
    /\ Names(outcome.msg, "SerpAPI") => serp_tool

\* C10: in intelligent mode with SerpAPI configured, SerpAPI's search is invoked
\* exactly when Tavily is not configured, raised, or returned an empty list.
C10_SerpInvokedIff ==
  (Intelligent /\ serp_tool /\ pc # "START") =>
    ((CallsTo(SERP) > 0) <=>
       (~tavily_tool \/ Raised(tavily_outcome) \/ EmptyList(tavily_outcome)))

C10_Witness ==
  Intelligent /\ BothConfigured /\ EmptyList(tavily_outcome) /\ CallsTo(SERP) = 1 /\ Ended

StartsOf(provider) == {i \in 1..Len(ThisCall) : ThisCall[i] = CallEvent("start", provider)}
EndsOf(provider) == {i \in 1..Len(ThisCall) : ThisCall[i] = CallEvent("end", provider)}

\* the number of provider calls in flight after the first n events of the call
InFlightAfter(n) ==
  Cardinality({i \in 1..n : ThisCall[i].ev = "start"})
    - Cardinality({i \in 1..n : ThisCall[i].ev = "end"})

\* C11: within one call the providers are attempted one after the other: at
\* most one provider call is in flight, SerpAPI's call starts only after
\* Tavily's has ended, Tavily is never called after SerpAPI, and each client is
\* invoked at most once.
C11_Sequential ==
  /\ \A n \in 0..Len(ThisCall) : InFlightAfter(n) \in {0, 1}
  /\ \A i \in StartsOf(SERP) : \A j \in StartsOf(TAVILY) :
       j < i /\ \E k \in EndsOf(TAVILY) : j < k /\ k < i
  /\ Cardinality(StartsOf(TAVILY)) <= 1 /\ Cardinality(StartsOf(SERP)) <= 1
  /\ tavily_calls = Cardinality({i \in 1..Len(call_log) :
                                   call_log[i] = CallEvent("start", TAVILY)})
  /\ serp_calls = Cardinality({i \in 1..Len(call_log) :
                                 call_log[i] = CallEvent("start", SERP)})

C11_Witness ==
  Intelligent /\ Ended /\ Raised(serp_outcome)
    /\ ThisCall = <<CallEvent("start", TAVILY), CallEvent("end", TAVILY),
                    CallEvent("start", SERP), CallEvent("end", SERP)>>

\* C12: a returned envelope has providers_used equal to the one provider whose
\* call produced the returned items, every item carries that provider's tag,
\* and a provider tried and discarded by the fallback is not listed.
C12_ProvidersUsedExact ==
  Returned =>
    LET env == outcome.value
        used == env.providers_used
    IN /\ Len(used) = 1
       /\ \A i \in 1..Len(env.results) : env.results[i].provider = used[1]
       /\ used[1] = TAVILY =>
            (tavily_outcome.kind = "return" /\ env.results = tavily_outcome.value.results)
       /\ used[1] = SERP =>
            (serp_outcome.kind = "return" /\ env.results = serp_outcome.value.results)
       /\ (CallsTo(TAVILY) = 1 /\ CallsTo(SERP) = 1) => used = <<SERP>>

C12_Witness ==
  Returned /\ CallsTo(TAVILY) = 1 /\ EmptyList(tavily_outcome) /\ NonEmpty(serp_outcome)
    /\ outcome.value.providers_used = <<SERP>>

\* C13: every returned envelope has providers_used non-empty exactly when its
\* results list is non-empty.
C13_ProvidersIffResults ==
  Returned =>
    ((Len(outcome.value.providers_used) > 0) <=> (Len(outcome.value.results) > 0))

\* the envelope env holds the raw items in the order the backend gave them
BuiltFrom(env, raw) ==
  /\ env.total_results = Len(raw)
  /\ Len(env.results) = Len(raw)
  /\ \A i \in 1..Len(raw) : env.results[i].title = raw[i]

\* C14: an envelope a client builds from N raw backend items has total_results
\* = N = len(results) in the backend's order, and intelligent_search returns it
\* with count and order unchanged.
C14_CountAndOrder ==
  /\ tavily_outcome.kind = "return" =>
       (tavily_response.kind = "ok" /\ BuiltFrom(tavily_outcome.value, tavily_response.results))
  /\ serp_outcome.kind = "return" =>
       (serp_response.kind = "ok" /\ BuiltFrom(serp_outcome.value, serp_response.results))
  /\ Returned =>
       /\ outcome.value.total_results = Len(outcome.value.results)
       /\ outcome.value.providers_used = <<TAVILY>> =>
            BuiltFrom(outcome.value, tavily_response.results)
       /\ outcome.value.providers_used = <<SERP>> =>
            BuiltFrom(outcome.value, serp_response.results)

C14_Witness ==
  Returned /\ outcome.value.providers_used = <<TAVILY>>
    /\ outcome.value.total_results = MaxItems
    /\ outcome.value.results[1].title # outcome.value.results[2].title

Research == op = "research"
ResearchDone == Research /\ rpc = "DONE"
EmailDone == op = "email" /\ rpc = "DONE"
DepsFailed == rpc = "DONE" /\ llm_calls = 0 /\ pc = "START"

\* C15: run_research_agent never raises: a configuration that cannot be built,
\* a SearchError, a summarizer failure or any other exception each end in a
\* returned AgentResponse with success = false.
C15_ResearchNeverRaises ==
  ResearchDone =>
    /\ response.kind = "return"
    /\ (DepsFailed \/ Raised(own_search.outcome) \/ Raised(llm_outcome)) => ~response.value.success

C15_Witness ==
  ResearchDone /\ NonEmpty(own_search.outcome) /\ Raised(llm_outcome) /\ response.kind = "return"

\* C16: every AgentResponse of run_research_agent or run_email_agent has
\* success = false => error set and data absent, success = true => error absent.
C16_ResponseShape ==
  ((ResearchDone \/ EmailDone) /\ response.kind = "return") =>
    LET v == response.value
    IN /\ ~v.success => (v.error # None /\ v.data = None)
       /\ v.success => v.error = None

C16_Witness ==
  EmailDone /\ response.kind = "return" /\ ~response.value.success
    /\ Raised(llm_outcome)

\* C17: when the search gave non-empty results and the summarization call
\* raises, the caller still receives the search results, with a separate
\* failure for the summarization, not one failed response without them.
C17_SearchSurvivesSummaryFailure ==
  (ResearchDone /\ NonEmpty(own_search.outcome) /\ Raised(llm_outcome)) =>
    /\ response.kind = "return"
    /\ response.value.data # None
    /\ \A dt \in response.value.data :
         "search_results" \in DOMAIN dt /\ dt.search_results = own_search.outcome.value

UnexpectedMessage == <<"Research", "failed", "due", "to", "unexpected", "error">>

StartsWith(text, prefix) ==
  Len(text) >= Len(prefix) /\ SubSeq(text, 1, Len(prefix)) = prefix

ErrorText(resp) == CHOOSE e \in resp.error : TRUE

\* C18: a failure of the summarization call is reported with a message and an
\* error text that no search failure carries.
C18_SummaryFailureDistinct ==
  /\ (ResearchDone /\ Raised(llm_outcome)) =>
       /\ response.kind = "return" /\ ~response.value.success
       /\ response.value.message = UnexpectedMessage
       /\ StartsWith(ErrorText(response.value), <<"Research", "agent", "failed", ":">>)
  /\ (ResearchDone /\ Ended /\ ~NonEmpty(own_search.outcome)) =>
       /\ response.kind = "return" /\ ~response.value.success
       /\ response.value.message # UnexpectedMessage
       /\ ~StartsWith(ErrorText(response.value), <<"Research", "agent", "failed", ":">>)

C18_Witness ==
  ResearchDone /\ Raised(llm_outcome) /\ response.kind = "return"
    /\ response.value.message = UnexpectedMessage

C18_WitnessSearchFailure ==
  ResearchDone /\ Raised(own_search.outcome) /\ Raised(tavily_outcome) /\ strategy = "tavily_only"
    /\ tavily_outcome.type = "Exception" /\ response.kind = "return"

\* C19: when gmail's create call raises after the email was generated,
\* run_email_agent still returns success = true with the generated draft and
\* draft_id unset; draft_id is set only when the create call succeeded.
C19_DraftFailureAbsorbed ==
  /\ (EmailDone /\ llm_outcome.kind = "return" /\ Raised(gmail_outcome)) =>
       /\ response.kind = "return" /\ response.value.success
       /\ response.value.data = llm_outcome.value.data
       /\ \A dr \in response.value.data : dr.draft_id = None
  /\ (EmailDone /\ response.kind = "return") =>
       \A dr \in response.value.data :
         dr.draft_id # None =>
           (gmail_outcome.kind = "return" /\ dr.draft_id = Some(<<gmail_outcome.value>>))

C19_Witness ==
  EmailDone /\ Raised(gmail_outcome) /\ gmail_outcome.type = "GmailAPIError"
    /\ response.kind = "return" /\ response.value.success

C19_WitnessCreated ==
  EmailDone /\ gmail_outcome.kind = "return" /\ response.kind = "return"
    /\ \E dr \in response.value.data : dr.draft_id = Some(<<"d2">>)

\* C20: when the search hands run_research_agent an envelope with an empty
\* results list, it returns success = false with message "No search results
\* found" and no data, and the summarization service is not invoked.
C20_NoResults ==
  (ResearchDone /\ EmptyList(own_search.outcome)) =>
    /\ response.kind = "return"
    /\ ~response.value.success
    /\ response.value.message = <<"No", "search", "results", "found">>
    /\ response.value.data = None
    /\ llm_calls = 0 /\ llm_outcome = NoOutcome

C20_Witness ==
  ResearchDone /\ EmptyList(own_search.outcome) /\ create_summary /\ response.kind = "return"

\* C21: with create_summary = false and a non-empty search result,
\* run_research_agent never invokes the text-transform service, returns
\* success = true with tokens_used unset, and the summary it returns is the raw
\* formatted result text, which contains the title of every result.
C21_RawSummary ==
  (ResearchDone /\ ~create_summary /\ NonEmpty(own_search.outcome)) =>
    /\ response.kind = "return"
    /\ llm_calls = 0 /\ llm_outcome = NoOutcome
    /\ response.value.success
    /\ response.value.tokens_used = None
    /\ \E dt \in response.value.data :
         /\ "summary" \in DOMAIN dt
         /\ dt.summary = FormatResults(own_search.outcome.value.results, 1)
         /\ \A i \in 1..Len(own_search.outcome.value.results) :
              Names(dt.summary, own_search.outcome.value.results[i].title)

\* a backend answer on which a client call fails
ClientFailure(resp) ==
  resp.kind \in {"status", "timeout", "request_error", "malformed", "error_field"}

\* C22: every failing provider-client call, whatever its cause (non-200 status,
\* timeout, connection error, malformed body), raises the provider's single
\* error type, TavilyAPIError from TavilySearchTool.search and SerpAPIError
\* from SerpSearchTool.search, and no other exception type leaves the client.
C22_SingleErrorType ==
  /\ ClientFailure(tavily_response) =>
       (Raised(tavily_outcome) /\ tavily_outcome.type = "TavilyAPIError")
  /\ ClientFailure(serp_response) =>
       (Raised(serp_outcome) /\ serp_outcome.type = "SerpAPIError")
  /\ (tavily_response.kind = "ok" => tavily_outcome.kind = "return")
  /\ (serp_response.kind = "ok" => serp_outcome.kind = "return")

C22_Witness ==
  /\ tavily_response.kind = "timeout" /\ tavily_outcome.type = "TavilyAPIError"
  /\ serp_response.kind = "malformed" /\ serp_outcome.type = "SerpAPIError"

\* C29: when a backend answers with a non-200 HTTP status, the error the
\* client raises carries status_code equal to that status, and its message
\* contains the status and the backend's error text.
C29_StatusCodeCarried ==
  /\ tavily_response.kind = "status" =>
       /\ Raised(tavily_outcome)
       /\ tavily_outcome.status_code = Some(tavily_response.code)
       /\ Names(tavily_outcome.msg, CodeText(tavily_response.code))
       /\ Contains(tavily_outcome.msg, StatusDetail(tavily_response.body))
  /\ serp_response.kind = "status" =>
       /\ Raised(serp_outcome)
       /\ serp_outcome.status_code = Some(serp_response.code)
       /\ Names(serp_outcome.msg, CodeText(serp_response.code))
       /\ Contains(serp_outcome.msg, StatusDetail(serp_response.body))

\* C23: the result cap sent to the backend equals min(max_results, 50) for the
\* Tavily client and min(max_results, 100) for the SerpAPI client: it never
\* exceeds the ceiling, and a requested value at or below it is sent unchanged.
C23_ResultCap ==
  \A i \in 1..Len(sent) :
    /\ sent[i].provider = TAVILY =>
         /\ sent[i].max_results <= 50
         /\ request.max_results <= 50 => sent[i].max_results = request.max_results
         /\ request.max_results > 50 => sent[i].max_results = 50
    /\ sent[i].provider = SERP =>
         /\ sent[i].num <= 100
         /\ request.max_results <= 100 => sent[i].num = request.max_results
         /\ request.max_results > 100 => sent[i].num = 100

C23_Witness ==
  /\ endpoint = "n8n_intelligent_search" /\ request.max_results = 101
  /\ Len(sent) = 2
  /\ sent[1].provider = TAVILY /\ sent[1].max_results = 50
  /\ sent[2].provider = SERP /\ sent[2].num = 100

C23_WitnessUnchanged ==
  /\ endpoint = "n8n_serp_search" /\ request.max_results = 51
  /\ Len(sent) = 1 /\ sent[1].num = 51

\* a request the validation of POST /search lets through
ValidSearchRequest ==
  /\ Strip(request.query) # ""
  /\ request.max_results >= 1 /\ request.max_results <= 20

\* C24: the strategy supplied in a request to the search endpoint is the
\* strategy the orchestrator runs for that request: a request with tavily_only
\* never calls SerpAPI and a request with serp_only never calls Tavily.
C24_RequestStrategyRuns ==
  /\ (endpoint = "n8n_intelligent_search" /\ environ.settings_ok) =>
       strategy_run = Some(request.search_strategy)
  /\ (endpoint = "POST /search" /\ ValidSearchRequest /\ environ.settings_ok) =>
       strategy_run = Some(request.search_strategy)
  /\ endpoint \in {"n8n_intelligent_search", "POST /search"} =>
       /\ request.search_strategy = "tavily_only" =>
            \A i \in 1..Len(sent) : sent[i].provider # SERP
       /\ request.search_strategy = "serp_only" =>
            \A i \in 1..Len(sent) : sent[i].provider # TAVILY

\* C25: every successful result produced for a search endpoint (intelligent,
\* Tavily-only and SerpAPI-only alike) carries the fields success, query,
\* total_results, search_time, providers_used and results, with total_results
\* equal to the number of results.
C25_SuccessfulResultShape ==
  (/\ endpoint \in {"n8n_intelligent_search", "n8n_tavily_search", "n8n_serp_search",
                    "sync_intelligent_search", "sync_tavily_search", "sync_serp_search"}
   /\ result.kind = "return" /\ result.value.success) =>
    /\ {"success", "query", "total_results", "search_time", "providers_used", "results"}
         \subseteq DOMAIN result.value
    /\ result.value.total_results = Len(result.value.results)

\* the two providers would yield a non-empty result for the request
WouldYield ==
  NonEmpty(IntelligentSearchRun("intelligent", Strip(request.query), request.max_results,
                                ToolFor(environ.tavily_api_key),
                                ToolFor(environ.serp_api_key),
                                backend.tavily, backend.serp).result)

\* C28: a POST /search request with a non-blank query and max_results between
\* 1 and 20, for which the providers would yield a non-empty result, is
\* answered with the success response and not with an error status.
C28_SearchEndpointAnswers ==
  (endpoint = "POST /search" /\ ValidSearchRequest /\ environ.settings_ok /\ WouldYield) =>
    /\ result.status = 200
    /\ \E body \in result.body : body.success /\ Len(body.results) > 0

\* C30: a POST /search/batch request with more than 10 queries is rejected
\* with status 400 ("Maximum 10 queries per batch") and performs no search; one
\* with at most 10 queries runs one intelligent search per non-blank query, in
\* order, and reports total_queries equal to the number of non-blank queries.
C30_BatchLimit ==
  endpoint = "POST /search/batch" =>
    /\ Len(request.queries) > 10 =>
         /\ result.status = 400
         /\ result.detail = <<"Maximum", "10", "queries", "per", "batch">>
         /\ sent = <<>>
    /\ Len(request.queries) <= 10 =>
         /\ result.status = 200
         /\ \E body \in result.body :
              /\ body.total_queries = Len(NonBlank(request.queries))
              /\ Len(body.results) = body.total_queries
              /\ \A i \in 1..Len(body.results) :
                   body.results[i].query = Strip(NonBlank(request.queries)[i])

\* the moves of the state machine of one intelligent_search call
ForwardMoves ==
  {<<"START", "TRY_PRIMARY">>, <<"START", "TRY_SECONDARY">>,
   <<"START", "SUCCESS">>, <<"START", "ALL_FAILED">>,
   <<"TRY_PRIMARY", "TRY_SECONDARY">>, <<"TRY_PRIMARY", "SUCCESS">>,
   <<"TRY_PRIMARY", "ALL_FAILED">>,
   <<"TRY_SECONDARY", "SUCCESS">>, <<"TRY_SECONDARY", "ALL_FAILED">>}

InFlight == pc \in {"TRY_PRIMARY", "TRY_SECONDARY"}

\* C26: every invocation of intelligent_search, each provider call eventually
\* returning or raising, eventually ends by returning an envelope or by
\* raising SearchError; every step of a call moves it forward through START,
\* TRY_PRIMARY, TRY_SECONDARY to SUCCESS or ALL_FAILED; and no exception that
\* is not a SearchError leaves intelligent_search.
C26_Terminates ==
  /\ InFlight ~> Ended
  /\ [][(requests' = requests /\ tool_runs' = tool_runs)
          => <<pc, pc'>> \in ForwardMoves]_searchVars
  /\ [](Ended => (/\ outcome.kind \in {"return", "raise"}
                  /\ pc = "SUCCESS" <=> outcome.kind = "return"
                  /\ outcome.kind = "raise" => "SearchError" \in outcome.mro))

C26_Witness ==
  /\ pc = "ALL_FAILED" /\ strategy = "tavily_only"
  /\ Raised(tavily_outcome) /\ tavily_outcome.type = "Exception"
  /\ outcome.type = "SearchError"

\* what call c does when it runs alone
Alone(c) ==
  IntelligentSearchRun(slots[c].want, "x", 5,
                       ToolFor(environ.tavily_api_key), ToolFor(environ.serp_api_key),
                       slots[c].ta, slots[c].sa)

Entered(c) == slots[c].pos \in {"TRY_PRIMARY", "TRY_SECONDARY", "SUCCESS", "ALL_FAILED"}
Finished(c) == slots[c].pos \in {"SUCCESS", "ALL_FAILED"}

\* C27: the providers a search calls and the outcome it returns depend only on
\* that request's own strategy, configured providers and provider responses:
\* an earlier search, or one running concurrently with a different strategy,
\* never changes the strategy or the provider set of another search.
C27_Independent ==
  \A c \in DOMAIN slots :
    /\ Entered(c) => slots[c].strategy = slots[c].want
    /\ Finished(c) =>
         /\ slots[c].outcome = Alone(c).result
         /\ slots[c].called = [i \in 1..Len(Alone(c).sent) |-> Alone(c).sent[i].provider]

C27_Witness ==
  /\ DOMAIN slots = Slots
  /\ \E c, d \in Slots :
       /\ c # d
       /\ slots[c].want = "tavily_only" /\ slots[d].want = "serp_only"
       /\ slots[c].pos = "TRY_PRIMARY" /\ Finished(d)
       /\ slots[c].settings # slots[d].settings

====
